---- MODULE Spec2Model ----
(***************************************************************************)
(* Model of the bonsai tree store (package db): the Node table, the        *)
(* Config record 'current_node', the store's operations and traversals,    *)
(* and the CLI commands that drive them.                                   *)
(*                                                                         *)
(* A Go pointer to a string is modelled as a sequence of length <= 1:      *)
(* <<>> is nil and <<x>> points at x.  The Node table is the sequence of   *)
(* its rows in rowid order (the order of a full table scan in SQLite).     *)
(***************************************************************************)
EXTENDS Integers, Sequences, FiniteSets, TLC

\* ------------------------------------------------------------------ bounds
\* Number of ids uuid.New() can hand out in one run of the model.
MaxIds == 3
\* Cap on the number of loop iterations / recursive calls one traversal may make
\* in the model; the traversals' results say whether the cap was hit.
MaxSteps == 12
\* Number of commands one terminal runs in the model of two terminals.
MaxRuns == 2

IDs == 1..MaxIds

\* uuid.New() is a random source: a run of the model fixes the sequence of ids
\* it returns.  The store compares ids for equality only, except in ORDER BY
\* id, so the sequences differ in how id order relates to insertion order.
UUIDStreams == {[i \in 1..MaxIds |-> i], [i \in 1..MaxIds |-> MaxIds + 1 - i]}

\* ------------------------------------------------------------------ values
NULL == <<>>
Ptr(x) == <<x>>

\* The callers' inputs.  The store never branches on content or model, so two
\* values of each are enough to tell one node's payload from another's.
RootInputs == {[content |-> "hi", model |-> NULL],
               [content |-> "yo", model |-> Ptr("m1")]}
ChildInputs == {[content |-> "hi", model |-> NULL]}
LLMInputs == {[content |-> "yo", model |-> "m1"]}
TypedInputs == {[content |-> "hi", type |-> "user", model |-> NULL],
                [content |-> "yo", type |-> "llm", model |-> Ptr("m1")],
                [content |-> "hi", type |-> "bot", model |-> NULL]}
\* The inputs of the statement-level specifications: one payload for roots, a
\* valid and an invalid one for children.
StmtRootInputs == {[content |-> "hi", model |-> NULL]}
StmtTypedInputs == {[content |-> "yo", type |-> "llm", model |-> Ptr("m1")],
                    [content |-> "hi", type |-> "bot", model |-> NULL]}

NoErr == "nil"
ErrNotFound == "not found"
ErrParentNotFound == "parent node not found"
ErrInvalidType == "invalid node type"
ErrInsert == "failed to insert node"
ErrGetNode == "failed to get node"
ErrGetParentNode == "failed to get parent node"
ErrSetCurrent == "failed to set current node"
ErrNotCurrent == "created node but failed to set as current"
ErrDelete == "failed to delete node"

\* The statement whose db.conn.Exec the backend fails during a call (a full
\* disk, a lock, a closed connection); NoFault when every statement runs.
NoFault == "none"
Faults == {NoFault, "InsertNode", "SetCurrentNode"}
\* Which of the DELETE statements of one prune the backend fails, counted in
\* the order the call issues them; NoFailAt when every one runs.
NoFailAt == 0
FailAts == 1..MaxIds

\* type Node struct
NewNode(id, content, type, parent, model) ==
    [id |-> id, content |-> content, type |-> type, parent |-> parent,
     children |-> "[]", model |-> model]

VARIABLES
    Node,       \* table Node: sequence of rows, in rowid order
    Config,     \* table Config, key 'current_node': NULL (no row) or Ptr(id)
    uuids,      \* the ids uuid.New() is still to return, in order
    last,       \* the last completed call of the single caller: name, argument, results
    callers     \* per concurrent caller: the statement it is at and its local variables

vars == <<Node, Config, uuids, last, callers>>

\* ------------------------------------------------------------- SQL helpers
Range(s) == {s[i] : i \in 1..Len(s)}
RowIDs(tbl) == {tbl[i].id : i \in 1..Len(tbl)}

\* SELECT ... FROM Node WHERE id = ?
SelectByID(tbl, nodeID) ==
    LET Test(r) == r.id = nodeID IN SelectSeq(tbl, Test)

\* SELECT ... FROM Node WHERE parent = ?   (no ORDER BY: rowid order)
SelectByParent(tbl, parentID) ==
    LET Test(r) == r.parent = Ptr(parentID) IN SelectSeq(tbl, Test)

\* SELECT ... FROM Node WHERE parent IS NULL   (before ORDER BY)
SelectRoots(tbl) ==
    LET Test(r) == r.parent = NULL IN SelectSeq(tbl, Test)

\* ORDER BY id: insertion of each row into the sorted prefix
RECURSIVE InsertSorted(_, _)
InsertSorted(sorted, r) ==
    IF sorted = <<>> THEN <<r>>
    ELSE IF r.id < Head(sorted).id THEN <<r>> \o sorted
    ELSE <<Head(sorted)>> \o InsertSorted(Tail(sorted), r)

RECURSIVE OrderByID(_)
OrderByID(rows) ==
    IF rows = <<>> THEN <<>>
    ELSE InsertSorted(OrderByID(SubSeq(rows, 1, Len(rows) - 1)), rows[Len(rows)])

\* DELETE FROM Node WHERE id = ?
ExecDelete(tbl, nodeID) ==
    LET Keep(r) == r.id # nodeID
        rest == SelectSeq(tbl, Keep)
    IN [tbl |-> rest, rowsAffected |-> Len(tbl) - Len(rest)]

\* ------------------------------------------------------------- operations
\* Mutant: the INSERT statement leaves the model column out.
InsertNodeWithoutModel(tbl, node) ==
    IF node.id \in RowIDs(tbl) \/ node.type \notin {"user", "llm"}
    THEN [tbl |-> tbl, err |-> ErrInsert]
    ELSE [tbl |-> Append(tbl, [node EXCEPT !.model = NULL]), err |-> NoErr]

\* InsertNode: id is the PRIMARY KEY and type has CHECK (type IN ('user',
\* 'llm')); the backend refuses a row that breaks either.
InsertNode(tbl, node) ==
    IF node.id \in RowIDs(tbl) \/ node.type \notin {"user", "llm"}
    THEN [tbl |-> tbl, err |-> ErrInsert]
    ELSE [tbl |-> Append(tbl, node), err |-> NoErr]

\* GetNodeByID
GetNodeByID(tbl, nodeID) ==
    LET rows == SelectByID(tbl, nodeID)
    IN IF rows = <<>>
       THEN [node |-> NULL, err |-> ErrNotFound]
       ELSE [node |-> Ptr(rows[1]), err |-> NoErr]

\* GetCurrentNode: QueryRow scans the first row; nil, nil on sql.ErrNoRows
GetCurrentNode(cfg) ==
    [nodeID |-> IF Len(cfg) = 0 THEN NULL ELSE Ptr(Head(cfg)), err |-> NoErr]

\* Mutant: the query has no ORDER BY, the rows come in table order.
GetRootNodesUnordered(tbl) == [nodes |-> SelectRoots(tbl), err |-> NoErr]

\* GetRootNodes
GetRootNodes(tbl) == [nodes |-> OrderByID(SelectRoots(tbl)), err |-> NoErr]

\* Mutant: the query has no ORDER BY, the rows come in table order.
GetDirectChildrenUnordered(tbl, parentID) ==
    [nodes |-> SelectByParent(tbl, parentID), err |-> NoErr]

\* GetDirectChildren
GetDirectChildren(tbl, parentID) ==
    [nodes |-> OrderByID(SelectByParent(tbl, parentID)), err |-> NoErr]

\* Mutant: a plain INSERT, which adds a second value beside the first.
SetCurrentNodeInsertOnly(cfg, nodeID) == [cfg |-> Append(cfg, nodeID), err |-> NoErr]

\* SetCurrentNode: INSERT ... ON CONFLICT(key) DO UPDATE SET value = ?
\* (cfg is the sequence of values stored under the key 'current_node')
SetCurrentNode(cfg, nodeID) == [cfg |-> Ptr(nodeID), err |-> NoErr]

\* Mutant: a DELETE that touched no row is reported as an error.
ClearCurrentNodeStrict(cfg) ==
    [cfg |-> NULL, err |-> IF Len(cfg) = 0 THEN ErrNotFound ELSE NoErr,
     rowsAffected |-> Len(cfg)]

\* ClearCurrentNode: DELETE FROM Config WHERE key = 'current_node';
\* rowsAffected is the statement's result, which the method discards.
ClearCurrentNode(cfg) == [cfg |-> NULL, err |-> NoErr, rowsAffected |-> Len(cfg)]

\* ------------------------------------------------------------- traversals
\* Mutant: no visited set (the guard and the marking are missing).
RECURSIVE collectUnguarded(_, _, _)
RECURSIVE collectUnguardedChildIDs(_, _, _)
collectUnguarded(tbl, nodeID, st) ==
    IF st.calls >= MaxSteps THEN [st EXCEPT !.cut = TRUE]
    ELSE LET st0 == [st EXCEPT !.calls = @ + 1]
             rows == SelectByID(tbl, nodeID)
         IN IF rows = <<>> THEN st0
            ELSE LET st2 == [st0 EXCEPT !.allNodes = Append(@, rows[1])]
                     children == SelectByParent(tbl, nodeID)
                     childIDs == [i \in 1..Len(children) |-> children[i].id]
                 IN collectUnguardedChildIDs(tbl, childIDs, st2)

collectUnguardedChildIDs(tbl, childIDs, st) ==
    IF childIDs = <<>> THEN st
    ELSE collectUnguardedChildIDs(tbl, Tail(childIDs),
                                  collectUnguarded(tbl, Head(childIDs), st))

\* Mutant: the node and its direct children are collected, their own children
\* are not (the recursion is missing).
collectDirectChildrenOnly(tbl, nodeID, st) ==
    LET rows == SelectByID(tbl, nodeID)
        children == SelectByParent(tbl, nodeID)
    IN IF nodeID \in st.visited \/ rows = <<>>
       THEN [st EXCEPT !.calls = @ + 1, !.visited = @ \cup {nodeID}]
       ELSE [st EXCEPT !.calls = @ + 1 + Len(children),
                       !.visited = @ \cup {nodeID} \cup RowIDs(children),
                       !.allNodes = @ \o rows \o children]

\* Mutant: a bottom-up collection (a node is appended after its subtree).
RECURSIVE collectPostOrder(_, _, _)
RECURSIVE collectPostOrderChildIDs(_, _, _)
collectPostOrder(tbl, nodeID, st) ==
    IF st.calls >= MaxSteps THEN [st EXCEPT !.cut = TRUE]
    ELSE LET st0 == [st EXCEPT !.calls = @ + 1] IN
         IF nodeID \in st0.visited THEN st0
         ELSE LET st1 == [st0 EXCEPT !.visited = @ \cup {nodeID}]
                  rows == SelectByID(tbl, nodeID)
              IN IF rows = <<>> THEN st1
                 ELSE LET children == SelectByParent(tbl, nodeID)
                          childIDs == [i \in 1..Len(children) |-> children[i].id]
                          st2 == collectPostOrderChildIDs(tbl, childIDs, st1)
                      IN [st2 EXCEPT !.allNodes = Append(@, rows[1])]

collectPostOrderChildIDs(tbl, childIDs, st) ==
    IF childIDs = <<>> THEN st
    ELSE collectPostOrderChildIDs(tbl, Tail(childIDs),
                                  collectPostOrder(tbl, Head(childIDs), st))

\* collectNodeAndChildren.  st carries the two arguments the Go code shares
\* between the recursive calls (allNodes, visited) and counts the calls; cut is
\* set when the model's cap MaxSteps stops the recursion.
RECURSIVE collectNodeAndChildren(_, _, _)
RECURSIVE collectChildIDs(_, _, _)
collectNodeAndChildren(tbl, nodeID, st) ==
    IF st.calls >= MaxSteps THEN [st EXCEPT !.cut = TRUE]
    ELSE LET st0 == [st EXCEPT !.calls = @ + 1] IN
         IF nodeID \in st0.visited THEN st0
         ELSE LET st1 == [st0 EXCEPT !.visited = @ \cup {nodeID}]
                  rows == SelectByID(tbl, nodeID)
              IN IF rows = <<>> THEN st1
                 ELSE LET st2 == [st1 EXCEPT !.allNodes = Append(@, rows[1])]
                          children == SelectByParent(tbl, nodeID)
                          childIDs == [i \in 1..Len(children) |-> children[i].id]
                      IN collectChildIDs(tbl, childIDs, st2)

\* Mutant: the loop over the children returns after the first one.
collectFirstChildOnly(tbl, childIDs, st) ==
    IF childIDs = <<>> THEN st
    ELSE collectNodeAndChildren(tbl, Head(childIDs), st)

\* for _, childID := range childIDs { collectNodeAndChildren(childID, ...) }
collectChildIDs(tbl, childIDs, st) ==
    IF childIDs = <<>> THEN st
    ELSE collectChildIDs(tbl, Tail(childIDs),
                         collectNodeAndChildren(tbl, Head(childIDs), st))

\* Mutant: an id without a row is reported as an error.
GetNodeAndAllChildrenStrict(tbl, nodeID) ==
    LET st == collectNodeAndChildren(tbl, nodeID,
                  [allNodes |-> <<>>, visited |-> {}, calls |-> 0, cut |-> FALSE])
    IN [nodes |-> st.allNodes,
        err |-> IF SelectByID(tbl, nodeID) = <<>> THEN ErrNotFound ELSE NoErr,
        calls |-> st.calls, cut |-> st.cut]

\* GetNodeAndAllChildren
GetNodeAndAllChildren(tbl, nodeID) ==
    LET st == collectNodeAndChildren(tbl, nodeID,
                  [allNodes |-> <<>>, visited |-> {}, calls |-> 0, cut |-> FALSE])
    IN [nodes |-> st.allNodes, err |-> NoErr, calls |-> st.calls, cut |-> st.cut]

\* Mutant: the level cap is tested with > instead of >= (one level too many).
RECURSIVE ParentPathLoopOffByOne(_, _, _, _, _)
ParentPathLoopOffByOne(tbl, maxLevels, currentNodeID, levelsTraversed, parentChain) ==
    IF levelsTraversed >= MaxSteps
    THEN [nodes |-> parentChain, err |-> NoErr, steps |-> levelsTraversed, cut |-> TRUE]
    ELSE IF maxLevels > 0 /\ levelsTraversed > maxLevels
    THEN [nodes |-> parentChain, err |-> NoErr, steps |-> levelsTraversed, cut |-> FALSE]
    ELSE LET cur == GetNodeByID(tbl, currentNodeID) IN
         IF cur.err # NoErr
         THEN [nodes |-> parentChain, err |-> ErrGetNode,
               steps |-> levelsTraversed, cut |-> FALSE]
         ELSE LET currentNode == cur.node[1] IN
              IF currentNode.parent = NULL
              THEN [nodes |-> parentChain, err |-> NoErr,
                    steps |-> levelsTraversed, cut |-> FALSE]
              ELSE LET par == GetNodeByID(tbl, currentNode.parent[1]) IN
                   IF par.err # NoErr
                   THEN [nodes |-> parentChain, err |-> ErrGetParentNode,
                         steps |-> levelsTraversed, cut |-> FALSE]
                   ELSE ParentPathLoopOffByOne(tbl, maxLevels, currentNode.parent[1],
                                               levelsTraversed + 1,
                                               Append(parentChain, par.node[1]))

\* Mutant: the loop does not move to the parent (currentNodeID is never
\* reassigned), so only the level cap can end it.
RECURSIVE ParentPathLoopStuck(_, _, _, _, _)
ParentPathLoopStuck(tbl, maxLevels, currentNodeID, levelsTraversed, parentChain) ==
    IF levelsTraversed >= MaxSteps
    THEN [nodes |-> parentChain, err |-> NoErr, steps |-> levelsTraversed, cut |-> TRUE]
    ELSE IF maxLevels > 0 /\ levelsTraversed >= maxLevels
    THEN [nodes |-> parentChain, err |-> NoErr, steps |-> levelsTraversed, cut |-> FALSE]
    ELSE LET cur == GetNodeByID(tbl, currentNodeID) IN
         IF cur.err # NoErr
         THEN [nodes |-> parentChain, err |-> ErrGetNode,
               steps |-> levelsTraversed, cut |-> FALSE]
         ELSE LET currentNode == cur.node[1] IN
              IF currentNode.parent = NULL
              THEN [nodes |-> parentChain, err |-> NoErr,
                    steps |-> levelsTraversed, cut |-> FALSE]
              ELSE LET par == GetNodeByID(tbl, currentNode.parent[1]) IN
                   IF par.err # NoErr
                   THEN [nodes |-> parentChain, err |-> ErrGetParentNode,
                         steps |-> levelsTraversed, cut |-> FALSE]
                   ELSE ParentPathLoopStuck(tbl, maxLevels, currentNodeID,
                                            levelsTraversed + 1,
                                            Append(parentChain, par.node[1]))

\* Mutant: a parent id without a row ends the walk like a root does.
RECURSIVE ParentPathLoopLenient(_, _, _, _, _)
ParentPathLoopLenient(tbl, maxLevels, currentNodeID, levelsTraversed, parentChain) ==
    IF levelsTraversed >= MaxSteps
    THEN [nodes |-> parentChain, err |-> NoErr, steps |-> levelsTraversed, cut |-> TRUE]
    ELSE IF maxLevels > 0 /\ levelsTraversed >= maxLevels
    THEN [nodes |-> parentChain, err |-> NoErr, steps |-> levelsTraversed, cut |-> FALSE]
    ELSE LET cur == GetNodeByID(tbl, currentNodeID) IN
         IF cur.err # NoErr
         THEN [nodes |-> parentChain, err |-> ErrGetNode,
               steps |-> levelsTraversed, cut |-> FALSE]
         ELSE LET currentNode == cur.node[1] IN
              IF currentNode.parent = NULL
              THEN [nodes |-> parentChain, err |-> NoErr,
                    steps |-> levelsTraversed, cut |-> FALSE]
              ELSE LET par == GetNodeByID(tbl, currentNode.parent[1]) IN
                   IF par.err # NoErr
                   THEN [nodes |-> parentChain, err |-> NoErr,
                         steps |-> levelsTraversed, cut |-> FALSE]
                   ELSE ParentPathLoopLenient(tbl, maxLevels, currentNode.parent[1],
                                              levelsTraversed + 1,
                                              Append(parentChain, par.node[1]))

\* The for-loop of GetParentPath; steps counts the moves to a parent, cut is set
\* when the model's cap MaxSteps stops the loop.
RECURSIVE ParentPathLoop(_, _, _, _, _)
ParentPathLoop(tbl, maxLevels, currentNodeID, levelsTraversed, parentChain) ==
    IF levelsTraversed >= MaxSteps
    THEN [nodes |-> parentChain, err |-> NoErr, steps |-> levelsTraversed, cut |-> TRUE]
    ELSE IF maxLevels > 0 /\ levelsTraversed >= maxLevels
    THEN [nodes |-> parentChain, err |-> NoErr, steps |-> levelsTraversed, cut |-> FALSE]
    ELSE LET cur == GetNodeByID(tbl, currentNodeID) IN
         IF cur.err # NoErr
         THEN [nodes |-> parentChain, err |-> ErrGetNode,
               steps |-> levelsTraversed, cut |-> FALSE]
         ELSE LET currentNode == cur.node[1] IN
              IF currentNode.parent = NULL
              THEN [nodes |-> parentChain, err |-> NoErr,
                    steps |-> levelsTraversed, cut |-> FALSE]
              ELSE LET par == GetNodeByID(tbl, currentNode.parent[1]) IN
                   IF par.err # NoErr
                   THEN [nodes |-> parentChain, err |-> ErrGetParentNode,
                         steps |-> levelsTraversed, cut |-> FALSE]
                   ELSE ParentPathLoop(tbl, maxLevels, currentNode.parent[1],
                                       levelsTraversed + 1,
                                       Append(parentChain, par.node[1]))

\* Mutant: the chain starts with the node itself.
GetParentPathWithSelf(tbl, nodeID, maxLevels) ==
    ParentPathLoop(tbl, maxLevels, nodeID, 0, SelectByID(tbl, nodeID))

\* GetParentPath
GetParentPath(tbl, nodeID, maxLevels) ==
    ParentPathLoop(tbl, maxLevels, nodeID, 0, <<>>)

\* Mutant: each node is appended to the chain instead of put in front of it.
RECURSIVE ConversationLoopAppend(_, _, _, _)
ConversationLoopAppend(tbl, currentNodeID, conversationChain, steps) ==
    IF steps >= MaxSteps
    THEN [nodes |-> conversationChain, err |-> NoErr, steps |-> steps, cut |-> TRUE]
    ELSE LET cur == GetNodeByID(tbl, currentNodeID) IN
         IF cur.err # NoErr
         THEN [nodes |-> <<>>, err |-> ErrGetNode, steps |-> steps, cut |-> FALSE]
         ELSE LET currentNode == cur.node[1]
                  chain == conversationChain \o <<currentNode>>
              IN IF currentNode.parent = NULL
                 THEN [nodes |-> chain, err |-> NoErr, steps |-> steps, cut |-> FALSE]
                 ELSE ConversationLoopAppend(tbl, currentNode.parent[1], chain, steps + 1)

\* The for-loop of GetConversationHistory; steps counts the moves to a parent.
RECURSIVE ConversationLoop(_, _, _, _)
ConversationLoop(tbl, currentNodeID, conversationChain, steps) ==
    IF steps >= MaxSteps
    THEN [nodes |-> conversationChain, err |-> NoErr, steps |-> steps, cut |-> TRUE]
    ELSE LET cur == GetNodeByID(tbl, currentNodeID) IN
         IF cur.err # NoErr
         THEN [nodes |-> <<>>, err |-> ErrGetNode, steps |-> steps, cut |-> FALSE]
         ELSE LET currentNode == cur.node[1]
                  chain == <<currentNode>> \o conversationChain
              IN IF currentNode.parent = NULL
                 THEN [nodes |-> chain, err |-> NoErr, steps |-> steps, cut |-> FALSE]
                 ELSE ConversationLoop(tbl, currentNode.parent[1], chain, steps + 1)

\* GetConversationHistory
GetConversationHistory(tbl, nodeID) == ConversationLoop(tbl, nodeID, <<>>, 0)

\* The delete loop of DeleteNodeAndAllChildren: for i := len-1; i >= 0; i--
\* (i is 1-based here: nodesToDelete[i] is the Go nodesToDelete[i-1]).
\* Mutant: the list is walked from the front (the index counts up).
DeleteTargetFromFront(nodesToDelete, i) == nodesToDelete[Len(nodesToDelete) + 1 - i]

\* node := nodesToDelete[i]
DeleteTarget(nodesToDelete, i) == nodesToDelete[i]

\* Mutant: the loop condition is i > 0 instead of i >= 0 (in the Go indices),
\* so nodesToDelete[0], the root of the subtree, is never deleted.
RECURSIVE DeleteLoopSkipsFirst(_, _, _, _)
DeleteLoopSkipsFirst(tbl, nodesToDelete, i, deletedCount) ==
    IF i < 2 THEN [tbl |-> tbl, count |-> deletedCount, err |-> NoErr]
    ELSE LET res == ExecDelete(tbl, nodesToDelete[i].id)
         IN DeleteLoopSkipsFirst(res.tbl, nodesToDelete, i - 1,
                                 deletedCount + res.rowsAffected)

\* Mutant: a loop that passes over a DELETE the backend failed and goes on
\* with the nodes before it, reporting the failure at the end.
RECURSIVE DeleteLoopExecSkipsFailed(_, _, _, _, _)
DeleteLoopExecSkipsFailed(tbl, nodesToDelete, i, deletedCount, failAt) ==
    IF i < 1
    THEN [tbl |-> tbl, count |-> deletedCount,
          err |-> IF failAt \in 1..Len(nodesToDelete) THEN ErrDelete ELSE NoErr]
    ELSE IF failAt = Len(nodesToDelete) - i + 1
    THEN DeleteLoopExecSkipsFailed(tbl, nodesToDelete, i - 1, deletedCount, failAt)
    ELSE LET res == ExecDelete(tbl, DeleteTarget(nodesToDelete, i).id)
         IN DeleteLoopExecSkipsFailed(res.tbl, nodesToDelete, i - 1,
                                      deletedCount + res.rowsAffected, failAt)

\* The delete loop of DeleteNodeAndAllChildren from index i down, with the
\* backend failing the failAt-th DELETE the call issues (none when failAt is
\* NoFailAt): the failed statement removes nothing and the loop returns.
RECURSIVE DeleteLoopExec(_, _, _, _, _)
DeleteLoopExec(tbl, nodesToDelete, i, deletedCount, failAt) ==
    IF i < 1 THEN [tbl |-> tbl, count |-> deletedCount, err |-> NoErr]
    ELSE IF failAt = Len(nodesToDelete) - i + 1
    THEN [tbl |-> tbl, count |-> deletedCount, err |-> ErrDelete]
    ELSE LET res == ExecDelete(tbl, DeleteTarget(nodesToDelete, i).id)
         IN DeleteLoopExec(res.tbl, nodesToDelete, i - 1,
                           deletedCount + res.rowsAffected, failAt)

\* The delete loop with every statement running.
DeleteLoop(tbl, nodesToDelete, i, deletedCount) ==
    DeleteLoopExec(tbl, nodesToDelete, i, deletedCount, NoFailAt)

\* Mutant: a delete of the one node that hands its children to its parent.
DeleteAndPromoteChildren(tbl, nodeID) ==
    LET rows == SelectByID(tbl, nodeID)
        res == ExecDelete(tbl, nodeID)
    IN IF rows = <<>> THEN [tbl |-> tbl, count |-> 0, err |-> NoErr]
       ELSE [tbl |-> [i \in 1..Len(res.tbl) |->
                        IF res.tbl[i].parent = Ptr(nodeID)
                        THEN [res.tbl[i] EXCEPT !.parent = rows[1].parent]
                        ELSE res.tbl[i]],
             count |-> res.rowsAffected, err |-> NoErr]

\* Mutant: a delete that does not cascade (removes the node, keeps its subtree).
DeleteNodeOnly(tbl, nodeID) ==
    LET res == ExecDelete(tbl, nodeID)
    IN [tbl |-> res.tbl, count |-> res.rowsAffected, err |-> NoErr]

\* Mutant: an empty collection is reported as an error.
DeleteNodeAndAllChildrenStrict(tbl, nodeID) ==
    LET nodesToDelete == GetNodeAndAllChildren(tbl, nodeID).nodes
    IN IF Len(nodesToDelete) = 0
       THEN [tbl |-> tbl, count |-> 0, err |-> ErrNotFound]
       ELSE DeleteLoop(tbl, nodesToDelete, Len(nodesToDelete), 0)

\* DeleteNodeAndAllChildren
DeleteNodeAndAllChildren(tbl, nodeID) ==
    LET nodesToDelete == GetNodeAndAllChildren(tbl, nodeID).nodes
    IN IF Len(nodesToDelete) = 0
       THEN [tbl |-> tbl, count |-> 0, err |-> NoErr]
       ELSE DeleteLoop(tbl, nodesToDelete, Len(nodesToDelete), 0)

\* DeleteNodeAndAllChildren with the backend failing the failAt-th DELETE
DeleteNodeAndAllChildrenExec(tbl, nodeID, failAt) ==
    LET nodesToDelete == GetNodeAndAllChildren(tbl, nodeID).nodes
    IN IF Len(nodesToDelete) = 0
       THEN [tbl |-> tbl, count |-> 0, err |-> NoErr]
       ELSE DeleteLoopExec(tbl, nodesToDelete, Len(nodesToDelete), 0, failAt)

\* ---------------------------------------------------------------- creation
\* InsertNode and SetCurrentNode when the backend fails the statement named by
\* fault: a failed Exec changes nothing and the method wraps its error.
InsertNodeExec(tbl, node, fault) ==
    IF fault = "InsertNode" THEN [tbl |-> tbl, err |-> ErrInsert]
    ELSE InsertNode(tbl, node)

SetCurrentNodeExec(cfg, nodeID, fault) ==
    IF fault = "SetCurrentNode" THEN [cfg |-> cfg, err |-> ErrSetCurrent]
    ELSE SetCurrentNode(cfg, nodeID)

\* Mutant: a failed pointer write is logged and swallowed.
CreateRootIgnoresPointerError(tbl, cfg, id, content, model, fault) ==
    LET node == NewNode(id, content, "user", NULL, model)
        ins == InsertNodeExec(tbl, node, fault)
    IN IF ins.err # NoErr
       THEN [tbl |-> tbl, cfg |-> cfg, node |-> NULL, err |-> ins.err]
       ELSE [tbl |-> ins.tbl, cfg |-> SetCurrentNodeExec(cfg, node.id, fault).cfg,
             node |-> Ptr(node), err |-> NoErr]

\* CreateRootNode under a fault, with id the value uuid.New() returns
CreateRootNodeExec(tbl, cfg, id, content, model, fault) ==
    LET node == NewNode(id, content, "user", NULL, model)
        ins == InsertNodeExec(tbl, node, fault)
    IN IF ins.err # NoErr
       THEN [tbl |-> tbl, cfg |-> cfg, node |-> NULL, err |-> ins.err]
       ELSE LET set == SetCurrentNodeExec(cfg, node.id, fault)
            IN IF set.err # NoErr
               THEN [tbl |-> ins.tbl, cfg |-> set.cfg, node |-> Ptr(node),
                     err |-> ErrNotCurrent]
               ELSE [tbl |-> ins.tbl, cfg |-> set.cfg, node |-> Ptr(node),
                     err |-> NoErr]

\* CreateRootNode, every statement running
CreateRootNode(tbl, cfg, id, content, model) ==
    CreateRootNodeExec(tbl, cfg, id, content, model, NoFault)

\* Mutant: the new node's Parent is set to the new node's own id.
CreateChildSelfParent(tbl, cfg, id, content, parentID, nodeType, model) ==
    IF GetNodeByID(tbl, parentID).err # NoErr
    THEN [tbl |-> tbl, cfg |-> cfg, node |-> NULL, err |-> ErrParentNotFound]
    ELSE IF nodeType # "user" /\ nodeType # "llm"
    THEN [tbl |-> tbl, cfg |-> cfg, node |-> NULL, err |-> ErrInvalidType]
    ELSE LET node == NewNode(id, content, nodeType, Ptr(id), model)
         IN [tbl |-> Append(tbl, node), cfg |-> Ptr(id),
             node |-> Ptr(node), err |-> NoErr]

\* Mutant: the parent lookup is left out.
CreateChildWithoutLookup(tbl, cfg, id, content, parentID, nodeType, model) ==
    IF nodeType # "user" /\ nodeType # "llm"
    THEN [tbl |-> tbl, cfg |-> cfg, node |-> NULL, err |-> ErrInvalidType]
    ELSE LET node == NewNode(id, content, nodeType, Ptr(parentID), model)
         IN [tbl |-> Append(tbl, node), cfg |-> Ptr(id),
             node |-> Ptr(node), err |-> NoErr]

\* Mutant: the pointer is moved to the parent, not to the new node.
CreateChildPointsAtParent(tbl, cfg, id, content, parentID, nodeType, model) ==
    IF GetNodeByID(tbl, parentID).err # NoErr
    THEN [tbl |-> tbl, cfg |-> cfg, node |-> NULL, err |-> ErrParentNotFound]
    ELSE IF nodeType # "user" /\ nodeType # "llm"
    THEN [tbl |-> tbl, cfg |-> cfg, node |-> NULL, err |-> ErrInvalidType]
    ELSE LET node == NewNode(id, content, nodeType, Ptr(parentID), model)
         IN [tbl |-> Append(tbl, node), cfg |-> Ptr(parentID),
             node |-> Ptr(node), err |-> NoErr]

\* CreateChildNodeWithType under a fault, with id the value uuid.New() returns
CreateChildNodeWithTypeExec(tbl, cfg, id, content, parentID, nodeType, model, fault) ==
    IF GetNodeByID(tbl, parentID).err # NoErr
    THEN [tbl |-> tbl, cfg |-> cfg, node |-> NULL, err |-> ErrParentNotFound]
    ELSE IF nodeType # "user" /\ nodeType # "llm"
    THEN [tbl |-> tbl, cfg |-> cfg, node |-> NULL, err |-> ErrInvalidType]
    ELSE LET node == NewNode(id, content, nodeType, Ptr(parentID), model)
             ins == InsertNodeExec(tbl, node, fault)
         IN IF ins.err # NoErr
            THEN [tbl |-> tbl, cfg |-> cfg, node |-> NULL, err |-> ins.err]
            ELSE LET set == SetCurrentNodeExec(cfg, node.id, fault)
                 IN IF set.err # NoErr
                    THEN [tbl |-> ins.tbl, cfg |-> set.cfg, node |-> Ptr(node),
                          err |-> ErrNotCurrent]
                    ELSE [tbl |-> ins.tbl, cfg |-> set.cfg, node |-> Ptr(node),
                          err |-> NoErr]

\* CreateChildNodeWithType, every statement running
CreateChildNodeWithType(tbl, cfg, id, content, parentID, nodeType, model) ==
    CreateChildNodeWithTypeExec(tbl, cfg, id, content, parentID, nodeType, model,
                                NoFault)

\* CreateChildNode
CreateChildNode(tbl, cfg, id, content, parentID, model) ==
    CreateChildNodeWithType(tbl, cfg, id, content, parentID, "user", model)

\* CreateLLMResponseNode
CreateLLMResponseNode(tbl, cfg, id, parentID, content, model) ==
    CreateChildNodeWithType(tbl, cfg, id, content, parentID, "llm", Ptr(model))

\* Mutant: the copy is made with CreateChildNode, which fixes the kind to 'user'.
CherryPickAsUser(tbl, cfg, id, sourceNodeID) ==
    LET currentNodeID == GetCurrentNode(cfg).nodeID
        src == GetNodeByID(tbl, sourceNodeID)
    IN IF currentNodeID = NULL
       THEN [tbl |-> tbl, cfg |-> cfg, node |-> NULL, err |-> NoErr, exit |-> 0]
       ELSE IF src.err # NoErr
       THEN [tbl |-> tbl, cfg |-> cfg, node |-> NULL, err |-> src.err, exit |-> 1]
       ELSE IF sourceNodeID = currentNodeID[1]
       THEN [tbl |-> tbl, cfg |-> cfg, node |-> NULL, err |-> NoErr, exit |-> 1]
       ELSE LET sourceNode == src.node[1]
                res == CreateChildNode(tbl, cfg, id, sourceNode.content,
                                       currentNodeID[1], sourceNode.model)
            IN [tbl |-> res.tbl, cfg |-> res.cfg, node |-> res.node,
                err |-> res.err, exit |-> IF res.err # NoErr THEN 1 ELSE 0]

\* Mutant: a move, the source row is deleted once the copy is made.
CherryPickMoves(tbl, cfg, id, sourceNodeID) ==
    LET currentNodeID == GetCurrentNode(cfg).nodeID
        src == GetNodeByID(tbl, sourceNodeID)
    IN IF currentNodeID = NULL
       THEN [tbl |-> tbl, cfg |-> cfg, node |-> NULL, err |-> NoErr, exit |-> 0]
       ELSE IF src.err # NoErr
       THEN [tbl |-> tbl, cfg |-> cfg, node |-> NULL, err |-> src.err, exit |-> 1]
       ELSE IF sourceNodeID = currentNodeID[1]
       THEN [tbl |-> tbl, cfg |-> cfg, node |-> NULL, err |-> NoErr, exit |-> 1]
       ELSE LET sourceNode == src.node[1]
                res == CreateChildNodeWithType(tbl, cfg, id, sourceNode.content,
                           currentNodeID[1], sourceNode.type, sourceNode.model)
            IN [tbl |-> IF res.err # NoErr THEN res.tbl
                        ELSE ExecDelete(res.tbl, sourceNodeID).tbl,
                cfg |-> res.cfg, node |-> res.node,
                err |-> res.err, exit |-> IF res.err # NoErr THEN 1 ELSE 0]

\* Mutant: a cherry-pick that does not compare the source with the current
\* node.
CherryPickOntoSelf(tbl, cfg, id, sourceNodeID) ==
    LET currentNodeID == GetCurrentNode(cfg).nodeID
        src == GetNodeByID(tbl, sourceNodeID)
    IN IF currentNodeID = NULL
       THEN [tbl |-> tbl, cfg |-> cfg, node |-> NULL, err |-> NoErr, exit |-> 0]
       ELSE IF src.err # NoErr
       THEN [tbl |-> tbl, cfg |-> cfg, node |-> NULL, err |-> src.err, exit |-> 1]
       ELSE LET sourceNode == src.node[1]
                res == CreateChildNodeWithType(tbl, cfg, id, sourceNode.content,
                           currentNodeID[1], sourceNode.type, sourceNode.model)
            IN [tbl |-> res.tbl, cfg |-> res.cfg, node |-> res.node,
                err |-> res.err, exit |-> IF res.err # NoErr THEN 1 ELSE 0]

\* cherryPickCmd.Run, with id the value uuid.New() returns; exit is the
\* command's exit status (1 after os.Exit(1)).
CherryPickCmd(tbl, cfg, id, sourceNodeID) ==
    LET currentNodeID == GetCurrentNode(cfg).nodeID
        src == GetNodeByID(tbl, sourceNodeID)
    IN IF currentNodeID = NULL
       THEN [tbl |-> tbl, cfg |-> cfg, node |-> NULL, err |-> NoErr, exit |-> 0]
       ELSE IF src.err # NoErr
       THEN [tbl |-> tbl, cfg |-> cfg, node |-> NULL, err |-> src.err, exit |-> 1]
       ELSE IF sourceNodeID = currentNodeID[1]
       THEN [tbl |-> tbl, cfg |-> cfg, node |-> NULL, err |-> NoErr, exit |-> 1]
       ELSE LET sourceNode == src.node[1]
                res == CreateChildNodeWithType(tbl, cfg, id, sourceNode.content,
                           currentNodeID[1], sourceNode.type, sourceNode.model)
            IN [tbl |-> res.tbl, cfg |-> res.cfg, node |-> res.node,
                err |-> res.err, exit |-> IF res.err # NoErr THEN 1 ELSE 0]

\* ------------------------------------------------------------ the commands
\* A command runs in a process of its own.  message and seed wait for the
\* model's answer (client.GenerateResponse), prune waits for the user's
\* (reader.ReadString); a command is given here as the operators for its runs
\* between two waits.
\* What a command line may carry for --llm ("" when the flag is absent); what
\* the environment does with the preparation of a request: the key lookup
\* finds no key, the client cannot be built, or the client stands; and how the
\* call to the model ends.
LLMFlags == {"", "m1"}
LLMEnvs == {"no key", "no client", "client"}
LLMAnswers == {"call failed", "response"}
LLMResponse == "re"

\* What a run of a command leaves behind: the tables, the nodes it created in
\* order, whether it got to the block that asks for a response, whether it now
\* waits for the response (with model the model asked), and otherwise its exit
\* status.
Ran(tbl, cfg, created, exit) ==
    [tbl |-> tbl, cfg |-> cfg, created |-> created, exit |-> exit,
     asked |-> FALSE, waits |-> FALSE, model |-> ""]

\* The block "Generate LLM response if model is specified" of the message and
\* seed commands up to the call of client.GenerateResponse, run after node was
\* created: a missing key and a client that cannot be built are warnings, and
\* the command exits 0.
RequestResponse(tbl, cfg, node, model, env) ==
    IF env # "client"
    THEN [Ran(tbl, cfg, <<node>>, 0) EXCEPT !.asked = TRUE]
    ELSE [Ran(tbl, cfg, <<node>>, 0)
          EXCEPT !.asked = TRUE, !.waits = TRUE, !.model = model]

\* Mutant: a response stored under the node that was current before the
\* message, as a sibling of the user node (under the seed itself for a seed).
GenerateAndStoreAsSibling(tbl, cfg, id, node, model, answer) ==
    IF answer # "response"
    THEN Ran(tbl, cfg, <<>>, 0)
    ELSE LET res == CreateLLMResponseNode(tbl, cfg, id,
                        IF node.parent = NULL THEN node.id ELSE node.parent[1],
                        LLMResponse, model)
         IN IF res.err # NoErr
            THEN Ran(res.tbl, res.cfg, <<>>, 0)
            ELSE Ran(res.tbl, res.cfg, <<res.node[1]>>, 0)

\* The rest of that block, from the return of client.GenerateResponse, on the
\* tables as they are by then: a failed call and a response that cannot be
\* stored are warnings, and the command exits 0.
GenerateAndStore(tbl, cfg, id, node, model, answer) ==
    IF answer # "response"
    THEN Ran(tbl, cfg, <<>>, 0)
    ELSE LET res == CreateLLMResponseNode(tbl, cfg, id, node.id, LLMResponse, model)
         IN IF res.err # NoErr
            THEN Ran(res.tbl, res.cfg, <<>>, 0)
            ELSE Ran(res.tbl, res.cfg, <<res.node[1]>>, 0)

\* seedCmd.Run up to its exit or its wait, with id the value uuid.New() returns
SeedCmd(tbl, cfg, id, content, llmModel, env) ==
    LET model == IF llmModel # "" THEN Ptr(llmModel) ELSE NULL
        res == CreateRootNode(tbl, cfg, id, content, model)
    IN IF res.err # NoErr
       THEN Ran(res.tbl, res.cfg, <<>>, 1)
       ELSE IF llmModel # ""
       THEN RequestResponse(res.tbl, res.cfg, res.node[1], llmModel, env)
       ELSE Ran(res.tbl, res.cfg, <<res.node[1]>>, 0)

\* rootCmd.Run with a message argument, up to its exit or its wait
MessageCmd(tbl, cfg, id, message, llmModel, env) ==
    LET currentNodeID == GetCurrentNode(cfg).nodeID
    IN IF currentNodeID = NULL
       THEN Ran(tbl, cfg, <<>>, 0)
       ELSE LET cur == GetNodeByID(tbl, currentNodeID[1])
            IN IF cur.err # NoErr
               THEN Ran(tbl, cfg, <<>>, 1)
               ELSE LET model == IF llmModel # "" THEN Ptr(llmModel)
                                 ELSE cur.node[1].model
                        res == CreateChildNode(tbl, cfg, id, message,
                                               currentNodeID[1], model)
                    IN IF res.err # NoErr
                       THEN Ran(res.tbl, res.cfg, <<>>, 1)
                       ELSE IF model # NULL /\ model[1] # ""
                       THEN RequestResponse(res.tbl, res.cfg, res.node[1],
                                            model[1], env)
                       ELSE Ran(res.tbl, res.cfg, <<res.node[1]>>, 0)

\* Mutant: a checkout that does not look the node up.
CheckoutUnchecked(tbl, cfg, nodeID) ==
    Ran(tbl, SetCurrentNode(cfg, nodeID).cfg, <<>>, 0)

\* checkoutCmd.Run
CheckoutCmd(tbl, cfg, nodeID) ==
    LET node == GetNodeByID(tbl, nodeID)
        currentNodeID == GetCurrentNode(cfg).nodeID
    IN IF node.err # NoErr
       THEN Ran(tbl, cfg, <<>>, 1)
       ELSE IF currentNodeID # NULL /\ currentNodeID[1] = nodeID
       THEN Ran(tbl, cfg, <<>>, 0)
       ELSE LET res == SetCurrentNode(cfg, nodeID)
            IN Ran(tbl, res.cfg, <<>>, IF res.err # NoErr THEN 1 ELSE 0)

\* A string read from the terminal is the sequence of its runes, a rune being
\* the number of its code point.  The input is taken to be valid UTF-8, in
\* which the byte '\n' occurs as the rune '\n' only.
NewLine == 10

\* The runes for which unicode.IsSpace holds: '\t', '\n', '\v', '\f', '\r',
\* ' ', U+0085 and U+00A0 in Latin-1, and beyond it the runes of the property
\* White_Space (U+1680, U+2000 to U+200A, U+2028, U+2029, U+202F, U+205F,
\* U+3000).
WhiteSpace ==
    {9, 10, 11, 12, 13, 32, 133, 160, 5760} \cup (8192..8202)
        \cup {8232, 8233, 8239, 8287, 12288}

\* The lower-case mappings of unicode.CaseRanges beyond ASCII, as
\* <<lo, hi, stride, delta>>: every stride-th rune from lo to hi is an
\* upper-case or title-case letter whose lower case is delta further on.
LowerRanges ==
    <<<<192, 214, 1, 32>>, <<216, 222, 1, 32>>, <<256, 302, 2, 1>>,
      <<304, 304, 1, -199>>, <<306, 310, 2, 1>>, <<313, 327, 2, 1>>,
      <<330, 374, 2, 1>>, <<376, 376, 1, -121>>, <<377, 381, 2, 1>>,
      <<385, 385, 1, 210>>, <<386, 388, 2, 1>>, <<390, 390, 1, 206>>,
      <<391, 391, 1, 1>>, <<393, 394, 1, 205>>, <<395, 395, 1, 1>>,
      <<398, 398, 1, 79>>, <<399, 399, 1, 202>>, <<400, 400, 1, 203>>,
      <<401, 401, 1, 1>>, <<403, 403, 1, 205>>, <<404, 404, 1, 207>>,
      <<406, 406, 1, 211>>, <<407, 407, 1, 209>>, <<408, 408, 1, 1>>,
      <<412, 412, 1, 211>>, <<413, 413, 1, 213>>, <<415, 415, 1, 214>>,
      <<416, 420, 2, 1>>, <<422, 422, 1, 218>>, <<423, 423, 1, 1>>,
      <<425, 425, 1, 218>>, <<428, 428, 1, 1>>, <<430, 430, 1, 218>>,
      <<431, 431, 1, 1>>, <<433, 434, 1, 217>>, <<435, 437, 2, 1>>,
      <<439, 439, 1, 219>>, <<440, 440, 1, 1>>, <<444, 444, 1, 1>>,
      <<452, 452, 1, 2>>, <<453, 453, 1, 1>>, <<455, 455, 1, 2>>,
      <<456, 456, 1, 1>>, <<458, 458, 1, 2>>, <<459, 475, 2, 1>>,
      <<478, 494, 2, 1>>, <<497, 497, 1, 2>>, <<498, 500, 2, 1>>,
      <<502, 502, 1, -97>>, <<503, 503, 1, -56>>, <<504, 542, 2, 1>>,
      <<544, 544, 1, -130>>, <<546, 562, 2, 1>>, <<570, 570, 1, 10795>>,
      <<571, 571, 1, 1>>, <<573, 573, 1, -163>>, <<574, 574, 1, 10792>>,
      <<577, 577, 1, 1>>, <<579, 579, 1, -195>>, <<580, 580, 1, 69>>,
      <<581, 581, 1, 71>>, <<582, 590, 2, 1>>, <<880, 882, 2, 1>>,
      <<886, 886, 1, 1>>, <<895, 895, 1, 116>>, <<902, 902, 1, 38>>,
      <<904, 906, 1, 37>>, <<908, 908, 1, 64>>, <<910, 911, 1, 63>>,
      <<913, 929, 1, 32>>, <<931, 939, 1, 32>>, <<975, 975, 1, 8>>,
      <<984, 1006, 2, 1>>, <<1012, 1012, 1, -60>>, <<1015, 1015, 1, 1>>,
      <<1017, 1017, 1, -7>>, <<1018, 1018, 1, 1>>, <<1021, 1023, 1, -130>>,
      <<1024, 1039, 1, 80>>, <<1040, 1071, 1, 32>>, <<1120, 1152, 2, 1>>,
      <<1162, 1214, 2, 1>>, <<1216, 1216, 1, 15>>, <<1217, 1229, 2, 1>>,
      <<1232, 1326, 2, 1>>, <<1329, 1366, 1, 48>>, <<4256, 4293, 1, 7264>>,
      <<4295, 4295, 1, 7264>>, <<4301, 4301, 1, 7264>>,
      <<5024, 5103, 1, 38864>>, <<5104, 5109, 1, 8>>,
      <<7312, 7354, 1, -3008>>, <<7357, 7359, 1, -3008>>,
      <<7680, 7828, 2, 1>>, <<7838, 7838, 1, -7615>>, <<7840, 7934, 2, 1>>,
      <<7944, 7951, 1, -8>>, <<7960, 7965, 1, -8>>, <<7976, 7983, 1, -8>>,
      <<7992, 7999, 1, -8>>, <<8008, 8013, 1, -8>>, <<8025, 8031, 2, -8>>,
      <<8040, 8047, 1, -8>>, <<8072, 8079, 1, -8>>, <<8088, 8095, 1, -8>>,
      <<8104, 8111, 1, -8>>, <<8120, 8121, 1, -8>>, <<8122, 8123, 1, -74>>,
      <<8124, 8124, 1, -9>>, <<8136, 8139, 1, -86>>, <<8140, 8140, 1, -9>>,
      <<8152, 8153, 1, -8>>, <<8154, 8155, 1, -100>>, <<8168, 8169, 1, -8>>,
      <<8170, 8171, 1, -112>>, <<8172, 8172, 1, -7>>,
      <<8184, 8185, 1, -128>>, <<8186, 8187, 1, -126>>,
      <<8188, 8188, 1, -9>>, <<8486, 8486, 1, -7517>>,
      <<8490, 8490, 1, -8383>>, <<8491, 8491, 1, -8262>>,
      <<8498, 8498, 1, 28>>, <<8544, 8559, 1, 16>>, <<8579, 8579, 1, 1>>,
      <<9398, 9423, 1, 26>>, <<11264, 11311, 1, 48>>, <<11360, 11360, 1, 1>>,
      <<11362, 11362, 1, -10743>>, <<11363, 11363, 1, -3814>>,
      <<11364, 11364, 1, -10727>>, <<11367, 11371, 2, 1>>,
      <<11373, 11373, 1, -10780>>, <<11374, 11374, 1, -10749>>,
      <<11375, 11375, 1, -10783>>, <<11376, 11376, 1, -10782>>,
      <<11378, 11378, 1, 1>>, <<11381, 11381, 1, 1>>,
      <<11390, 11391, 1, -10815>>, <<11392, 11490, 2, 1>>,
      <<11499, 11501, 2, 1>>, <<11506, 11506, 1, 1>>, <<42560, 42604, 2, 1>>,
      <<42624, 42650, 2, 1>>, <<42786, 42798, 2, 1>>, <<42802, 42862, 2, 1>>,
      <<42873, 42875, 2, 1>>, <<42877, 42877, 1, -35332>>,
      <<42878, 42886, 2, 1>>, <<42891, 42891, 1, 1>>,
      <<42893, 42893, 1, -42280>>, <<42896, 42898, 2, 1>>,
      <<42902, 42920, 2, 1>>, <<42922, 42922, 1, -42308>>,
      <<42923, 42923, 1, -42319>>, <<42924, 42924, 1, -42315>>,
      <<42925, 42925, 1, -42305>>, <<42926, 42926, 1, -42308>>,
      <<42928, 42928, 1, -42258>>, <<42929, 42929, 1, -42282>>,
      <<42930, 42930, 1, -42261>>, <<42931, 42931, 1, 928>>,
      <<42932, 42946, 2, 1>>, <<42948, 42948, 1, -48>>,
      <<42949, 42949, 1, -42307>>, <<42950, 42950, 1, -35384>>,
      <<42951, 42953, 2, 1>>, <<42960, 42960, 1, 1>>, <<42966, 42968, 2, 1>>,
      <<42997, 42997, 1, 1>>, <<65313, 65338, 1, 32>>,
      <<66560, 66599, 1, 40>>, <<66736, 66771, 1, 40>>,
      <<66928, 66938, 1, 39>>, <<66940, 66954, 1, 39>>,
      <<66956, 66962, 1, 39>>, <<66964, 66965, 1, 39>>,
      <<68736, 68786, 1, 64>>, <<71840, 71871, 1, 32>>,
      <<93760, 93791, 1, 32>>, <<125184, 125217, 1, 34>>>>

\* unicode.ToLower
ToLowerRune(r) ==
    IF r < 128
    THEN IF r \in 65..90 THEN r + 32 ELSE r
    ELSE LET hits == {k \in 1..Len(LowerRanges) :
                         /\ LowerRanges[k][1] <= r
                         /\ r <= LowerRanges[k][2]
                         /\ (r - LowerRanges[k][1]) % LowerRanges[k][3] = 0}
         IN IF hits = {} THEN r
            ELSE r + LowerRanges[CHOOSE k \in hits : TRUE][4]

\* strings.ToLower
ToLower(s) == [i \in 1..Len(s) |-> ToLowerRune(s[i])]

\* strings.TrimSpace
TrimSpace(s) ==
    LET kept == {i \in 1..Len(s) : s[i] \notin WhiteSpace}
    IN IF kept = {} THEN <<>>
       ELSE LET first == CHOOSE i \in kept : \A j \in kept : i <= j
                final == CHOOSE i \in kept : \A j \in kept : j <= i
            IN SubSeq(s, first, final)

\* bufio.Reader.ReadString('\n') on the input stdin: the characters up to and
\* including the first newline, or all of them and io.EOF when there is none.
ReadString(stdin) ==
    LET ends == {i \in 1..Len(stdin) : stdin[i] = NewLine}
    IN IF ends = {} THEN [line |-> stdin, err |-> "EOF"]
       ELSE [line |-> SubSeq(stdin, 1, CHOOSE i \in ends : \A j \in ends : i <= j),
             err |-> NoErr]

\* The answers that confirm: "y" and "yes"
AnswerY == <<121>>
AnswerYes == <<121, 101, 115>>

\* What the user may type at the confirmation prompt: "y\n", "Y\v\n",
\* "\u00A0Yes\u2003\n", "n\n", "\u00C9\n" (an upper-case letter beyond ASCII)
\* and "yes", an input that ends without a newline.
Stdins == {<<121, 10>>, <<89, 11, 10>>, <<160, 89, 101, 115, 8195, 10>>,
           <<110, 10>>, <<201, 10>>, <<121, 101, 115>>}

\* What a run of prune leaves behind: the tables, the previewed nodes, whether
\* the current node was among them, the count the deletion returned, whether
\* the command now waits at the prompt, and otherwise its exit status.
Pruned(tbl, cfg, nodesToDelete, willDeleteCurrent, deletedCount, exit) ==
    [tbl |-> tbl, cfg |-> cfg, nodesToDelete |-> nodesToDelete,
     willDeleteCurrent |-> willDeleteCurrent, deletedCount |-> deletedCount,
     exit |-> exit, waits |-> FALSE]

\* pruneCmd.Run up to the prompt: the preview, and whether the current node
\* is in it
PrunePreview(tbl, cfg, nodeID) ==
    LET col == GetNodeAndAllChildren(tbl, nodeID)
        nodesToDelete == col.nodes
        currentNodeID == GetCurrentNode(cfg).nodeID
        willDeleteCurrent ==
            /\ currentNodeID # NULL
            /\ \E i \in 1..Len(nodesToDelete) : nodesToDelete[i].id = currentNodeID[1]
    IN IF col.err # NoErr \/ Len(nodesToDelete) = 0
       THEN Pruned(tbl, cfg, nodesToDelete, FALSE, 0, 1)
       ELSE [Pruned(tbl, cfg, nodesToDelete, willDeleteCurrent, 0, 0)
             EXCEPT !.waits = TRUE]

\* Mutant: a prune that deletes without reading the answer.
PruneUnconfirmed(tbl, cfg, nodeID, nodesToDelete, willDeleteCurrent, stdin) ==
    LET del == DeleteNodeAndAllChildren(tbl, nodeID)
    IN Pruned(del.tbl,
              IF willDeleteCurrent THEN ClearCurrentNode(cfg).cfg ELSE cfg,
              nodesToDelete, willDeleteCurrent, del.count, 0)

\* Mutant: a prune that never clears the current node.
PruneKeepsPointer(tbl, cfg, nodeID, nodesToDelete, willDeleteCurrent, stdin) ==
    LET read == ReadString(stdin)
        response == TrimSpace(ToLower(read.line))
        del == DeleteNodeAndAllChildren(tbl, nodeID)
    IN IF read.err # NoErr
       THEN Pruned(tbl, cfg, nodesToDelete, FALSE, 0, 1)
       ELSE IF response # AnswerY /\ response # AnswerYes
       THEN Pruned(tbl, cfg, nodesToDelete, FALSE, 0, 0)
       ELSE Pruned(del.tbl, cfg, nodesToDelete, FALSE, del.count, 0)

\* pruneCmd.Run from the prompt on, with stdin what the user types, on the
\* tables as they are by then; nodesToDelete and willDeleteCurrent are the
\* command's own, from before the prompt
PruneConfirm(tbl, cfg, nodeID, nodesToDelete, willDeleteCurrent, stdin) ==
    LET read == ReadString(stdin)
        response == TrimSpace(ToLower(read.line))
        del == DeleteNodeAndAllChildren(tbl, nodeID)
    IN IF read.err # NoErr
       THEN Pruned(tbl, cfg, nodesToDelete, willDeleteCurrent, 0, 1)
       ELSE IF response # AnswerY /\ response # AnswerYes
       THEN Pruned(tbl, cfg, nodesToDelete, willDeleteCurrent, 0, 0)
       ELSE IF del.err # NoErr
       THEN Pruned(del.tbl, cfg, nodesToDelete, willDeleteCurrent, del.count, 1)
       ELSE Pruned(del.tbl,
                   IF willDeleteCurrent THEN ClearCurrentNode(cfg).cfg ELSE cfg,
                   nodesToDelete, willDeleteCurrent, del.count, 0)

\* The marks the listing puts after a root's id.
NoMark == ""
MarkCurrent == "(current working node)"
MarkContains == "(contains current working node)"

\* Mutant: a listing that only looks at the roots themselves.
SeedsMarkRootsOnly(tbl, cfg) ==
    LET rootNodes == GetRootNodes(tbl).nodes
        currentNodeID == GetCurrentNode(cfg).nodeID
    IN [i \in 1..Len(rootNodes) |->
          [id |-> rootNodes[i].id,
           statusMessage |-> IF currentNodeID # NULL
                                /\ currentNodeID[1] = rootNodes[i].id
                             THEN MarkCurrent ELSE NoMark]]

\* seedsCmd.Run: the id and the status message printed for each root, in the
\* order printed
SeedsCmd(tbl, cfg) ==
    LET rootNodes == GetRootNodes(tbl).nodes
        currentNodeID == GetCurrentNode(cfg).nodeID
        statusMessage(node) ==
            IF currentNodeID = NULL THEN NoMark
            ELSE IF currentNodeID[1] = node.id THEN MarkCurrent
            ELSE LET col == GetNodeAndAllChildren(tbl, node.id)
                     descendants == col.nodes
                 IN IF col.err # NoErr THEN NoMark
                    ELSE IF \E k \in 1..Len(descendants) :
                                /\ descendants[k].id = currentNodeID[1]
                                /\ descendants[k].id # node.id
                    THEN MarkContains
                    ELSE NoMark
    IN [i \in 1..Len(rootNodes) |->
          [id |-> rootNodes[i].id, statusMessage |-> statusMessage(rootNodes[i])]]

\* ------------------------------------------------- the store, one caller
\* Record of a completed call: operation, id argument (NULL if none), the
\* returned node and its id (NULL if none), returned error, returned count,
\* returned list, the statement the backend failed (NoFault if none), and for
\* a command what its user and its environment gave it (NULL if nothing).
Ret(op, arg, node, err, count) ==
    [op |-> op, arg |-> arg, node |-> node,
     id |-> IF node = NULL THEN NULL ELSE Ptr(node[1].id),
     err |-> err, count |-> count, out |-> <<>>, fault |-> NoFault,
     in |-> NULL]

\* The callers that may share one store, and a caller that is in no call.
Callers == {1, 2}
Idle == [pc |-> "idle", op |-> "none", arg |-> NULL, in |-> NULL, node |-> NULL,
         nodesToDelete |-> <<>>, i |-> 0, deletedCount |-> 0, err |-> NoErr,
         stack |-> <<>>, visited |-> {}, cur |-> NULL, willDeleteCurrent |-> FALSE,
         phase |-> "", row |-> NULL, preview |-> <<>>, roots |-> <<>>,
         out |-> <<>>, current |-> NULL, runs |-> 0]

\* NewDatabase + Initialize on a new file: both tables empty
Init ==
    /\ Node = <<>>
    /\ Config = NULL
    /\ uuids \in UUIDStreams
    /\ last = Ret("Initialize", NULL, NULL, NoErr, 0)
    /\ callers = [c \in Callers |-> Idle]

\* uuid.New(): the next id of the stream.  When the model's MaxIds ids are
\* used up the only calls left are those that return before uuid.New(); they
\* are given the placeholder 0.
UUID == IF uuids = <<>> THEN 0 ELSE Head(uuids)

\* The effect of a create call res made with the fresh id (id is consumed only
\* when the call got as far as uuid.New()).
Created(op, arg, id, res) ==
    /\ id \in IDs \/ res.err \in {ErrParentNotFound, ErrInvalidType}
    /\ Node' = res.tbl
    /\ Config' = res.cfg
    /\ uuids' = IF res.err \in {ErrParentNotFound, ErrInvalidType}
                THEN uuids ELSE Tail(uuids)
    /\ last' = Ret(op, arg, res.node, res.err, 0)
    /\ UNCHANGED callers

CallCreateRootNode ==
    \E in \in RootInputs, id \in {UUID} :
        Created("CreateRootNode", NULL, id,
                CreateRootNode(Node, Config, id, in.content, in.model))

CallCreateChildNode ==
    \E in \in ChildInputs, parentID \in IDs, id \in {UUID} :
        Created("CreateChildNode", Ptr(parentID), id,
                CreateChildNode(Node, Config, id, in.content, parentID, in.model))

CallCreateChildNodeWithType ==
    \E in \in TypedInputs, parentID \in IDs, id \in {UUID} :
        Created("CreateChildNodeWithType", Ptr(parentID), id,
                CreateChildNodeWithType(Node, Config, id, in.content, parentID,
                                        in.type, in.model))

CallCreateLLMResponseNode ==
    \E in \in LLMInputs, parentID \in IDs, id \in {UUID} :
        Created("CreateLLMResponseNode", Ptr(parentID), id,
                CreateLLMResponseNode(Node, Config, id, parentID, in.content, in.model))

CallCherryPick ==
    \E sourceNodeID \in IDs, id \in {UUID} :
        LET res == CherryPickCmd(Node, Config, id, sourceNodeID)
        IN /\ id \in IDs \/ res.node = NULL
           /\ Node' = res.tbl
           /\ Config' = res.cfg
           /\ uuids' = IF res.node = NULL THEN uuids ELSE Tail(uuids)
           /\ last' = Ret("cherry-pick", Ptr(sourceNodeID), res.node, res.err, res.exit)
           /\ UNCHANGED callers

\* Mutant: a prune that unsets the pointer when it removed the pointed node.
CallDeleteAndUnset ==
    \E nodeID \in IDs :
        LET res == DeleteNodeAndAllChildren(Node, nodeID)
        IN /\ Node' = res.tbl
           /\ Config' = IF Config # NULL /\ Config[1] \notin RowIDs(res.tbl)
                        THEN NULL ELSE Config
           /\ last' = Ret("DeleteNodeAndAllChildren", Ptr(nodeID), NULL, res.err, res.count)
           /\ UNCHANGED <<uuids, callers>>

CallDeleteNodeAndAllChildren ==
    \E nodeID \in IDs :
        LET res == DeleteNodeAndAllChildren(Node, nodeID)
        IN /\ Node' = res.tbl
           /\ last' = Ret("DeleteNodeAndAllChildren", Ptr(nodeID), NULL, res.err, res.count)
           /\ UNCHANGED <<Config, uuids, callers>>

\* Mutant: a SetCurrentNode that looks the node up first and refuses an id
\* that does not resolve.
CallSetCurrentNodeChecked ==
    \E nodeID \in IDs :
        LET get == GetNodeByID(Node, nodeID)
        IN /\ Config' = IF get.err # NoErr THEN Config
                        ELSE SetCurrentNode(Config, nodeID).cfg
           /\ last' = Ret("SetCurrentNode", Ptr(nodeID), NULL, get.err, 0)
           /\ UNCHANGED <<Node, uuids, callers>>

CallSetCurrentNode ==
    \E nodeID \in IDs :
        LET res == SetCurrentNode(Config, nodeID)
        IN /\ Config' = res.cfg
           /\ last' = Ret("SetCurrentNode", Ptr(nodeID), NULL, res.err, 0)
           /\ UNCHANGED <<Node, uuids, callers>>

\* count records the rows the DELETE removed (0 when no pointer was set)
CallClearCurrentNode ==
    LET res == ClearCurrentNode(Config)
    IN /\ Config' = res.cfg
       /\ last' = Ret("ClearCurrentNode", NULL, NULL, res.err, res.rowsAffected)
       /\ UNCHANGED <<Node, uuids, callers>>

\* The operations the commands call.  InsertNode, which the creates call after
\* their checks, is also exported; a caller that calls it with a row of its
\* own is CallInsertNode of SpecInsert.
Next ==
    \/ CallCreateRootNode
    \/ CallCreateChildNode
    \/ CallCreateChildNodeWithType
    \/ CallCreateLLMResponseNode
    \/ CallCherryPick
    \/ CallDeleteNodeAndAllChildren
    \/ CallSetCurrentNode
    \/ CallClearCurrentNode

Spec == Init /\ [][Next]_vars

\* ------------------------------- the store under storage faults, one caller
\* The create calls with the backend failing one statement, or none, of each
\* call; last.fault records which.
CreatedExec(op, arg, id, res, fault) ==
    /\ id \in IDs \/ res.err \in {ErrParentNotFound, ErrInvalidType}
    /\ Node' = res.tbl
    /\ Config' = res.cfg
    /\ uuids' = IF res.err \in {ErrParentNotFound, ErrInvalidType}
                THEN uuids ELSE Tail(uuids)
    /\ last' = [Ret(op, arg, res.node, res.err, 0) EXCEPT !.fault = fault]
    /\ UNCHANGED callers

CallCreateRootNodeExec ==
    \E in \in StmtRootInputs, id \in {UUID}, fault \in Faults :
        CreatedExec("CreateRootNode", NULL, id,
                    CreateRootNodeExec(Node, Config, id, in.content, in.model, fault),
                    fault)

CallCreateChildNodeWithTypeExec ==
    \E in \in StmtTypedInputs, parentID \in IDs, id \in {UUID}, fault \in Faults :
        CreatedExec("CreateChildNodeWithType", Ptr(parentID), id,
                    CreateChildNodeWithTypeExec(Node, Config, id, in.content,
                                                parentID, in.type, in.model, fault),
                    fault)

\* A prune during which the backend fails one DELETE; last.in records which.
CallDeleteNodeAndAllChildrenExec ==
    \E nodeID \in IDs, failAt \in FailAts :
        \E res \in {DeleteNodeAndAllChildrenExec(Node, nodeID, failAt)} :
           /\ res.err # NoErr
           /\ Node' = res.tbl
           /\ last' = [Ret("DeleteNodeAndAllChildren", Ptr(nodeID), NULL,
                           res.err, res.count)
                       EXCEPT !.fault = "DeleteNode", !.in = Ptr(failAt)]
           /\ UNCHANGED <<Config, uuids, callers>>

NextFault ==
    \/ CallCreateRootNodeExec
    \/ CallCreateChildNodeWithTypeExec
    \/ CallDeleteNodeAndAllChildren
    \/ CallDeleteNodeAndAllChildrenExec
    \/ CallSetCurrentNode
    \/ CallClearCurrentNode

SpecFault == Init /\ [][NextFault]_vars

\* ------------------------------------- the store, statement by statement
\* Each action below is one SQL statement of an operation, together with the
\* local computation that leads up to it; between two statements of one
\* caller the other callers may run theirs.  The recursion of
\* collectNodeAndChildren is kept as the stack of ids it has still to visit:
\* a call's loop over its children does nothing after the last of them, so the
\* ids pending in all the open calls are one sequence, nearest first.
Local(c) == callers[c]
Goto(c, rec) == callers' = [callers EXCEPT ![c] = rec]
Done(c, op, node, count, err) ==
    Goto(c, [Idle EXCEPT !.op = op, !.node = node, !.deletedCount = count, !.err = err])

\* CreateRootNode: uuid.New() and InsertNode
StmtRootInsert(c) ==
    \E in \in StmtRootInputs :
        LET node == NewNode(UUID, in.content, "user", NULL, in.model)
            ins == InsertNode(Node, node)
        IN /\ Local(c).pc = "idle"
           /\ UUID \in IDs
           /\ Node' = ins.tbl
           /\ uuids' = Tail(uuids)
           /\ IF ins.err # NoErr
              THEN Done(c, "CreateRootNode", NULL, 0, ins.err)
              ELSE Goto(c, [Idle EXCEPT !.pc = "setcurrent", !.op = "CreateRootNode",
                                        !.node = Ptr(node)])
           /\ UNCHANGED <<Config, last>>

\* CreateChildNodeWithType: the parent lookup and the type check
StmtChildLookup(c) ==
    \E in \in StmtTypedInputs, parentID \in IDs :
        /\ Local(c).pc = "idle"
        /\ IF GetNodeByID(Node, parentID).err # NoErr
           THEN Done(c, "CreateChildNodeWithType", NULL, 0, ErrParentNotFound)
           ELSE IF in.type # "user" /\ in.type # "llm"
           THEN Done(c, "CreateChildNodeWithType", NULL, 0, ErrInvalidType)
           ELSE Goto(c, [Idle EXCEPT !.pc = "insert", !.op = "CreateChildNodeWithType",
                                     !.arg = Ptr(parentID), !.in = Ptr(in)])
        /\ UNCHANGED <<Node, Config, uuids, last>>

\* CreateChildNodeWithType: uuid.New() and InsertNode
StmtChildInsert(c) ==
    LET in == Local(c).in[1]
        node == NewNode(UUID, in.content, in.type, Local(c).arg, in.model)
        ins == InsertNode(Node, node)
    IN /\ Local(c).pc = "insert"
       /\ UUID \in IDs
       /\ Node' = ins.tbl
       /\ uuids' = Tail(uuids)
       /\ IF ins.err # NoErr
          THEN Done(c, Local(c).op, NULL, 0, ins.err)
          ELSE Goto(c, [Idle EXCEPT !.pc = "setcurrent", !.op = Local(c).op,
                                    !.node = Ptr(node)])
       /\ UNCHANGED <<Config, last>>

\* Mutant: the pointer is written only when none is stored (ON CONFLICT DO
\* NOTHING).
StmtSetCurrentIfUnset(c) ==
    /\ Local(c).pc = "setcurrent"
    /\ Config' = IF Config = NULL
                 THEN SetCurrentNode(Config, Local(c).node[1].id).cfg ELSE Config
    /\ Done(c, Local(c).op, Local(c).node, 0, NoErr)
    /\ UNCHANGED <<Node, uuids, last>>

\* CreateRootNode / CreateChildNodeWithType: SetCurrentNode(node.ID)
StmtSetCurrent(c) ==
    /\ Local(c).pc = "setcurrent"
    /\ Config' = SetCurrentNode(Config, Local(c).node[1].id).cfg
    /\ Done(c, Local(c).op, Local(c).node, 0, NoErr)
    /\ UNCHANGED <<Node, uuids, last>>

\* collectNodeAndChildren: the calls that return at the visited test
RECURSIVE DropVisited(_, _)
DropVisited(stack, visited) ==
    IF stack # <<>> /\ Head(stack) \in visited
    THEN DropVisited(Tail(stack), visited)
    ELSE stack

\* The local computation of a collection l after one of its SELECTs: on to the
\* next id that has not been visited, or, when none is pending, the return of
\* GetNodeAndAllChildren and the length test of DeleteNodeAndAllChildren.
CollectOn(c, l) ==
    LET stack == DropVisited(l.stack, l.visited)
    IN IF stack # <<>>
       THEN Goto(c, [l EXCEPT !.pc = "collect", !.stack = stack])
       ELSE IF Len(l.nodesToDelete) = 0
       THEN Done(c, l.op, NULL, 0, NoErr)
       ELSE Goto(c, [l EXCEPT !.pc = "delete", !.stack = <<>>, !.visited = {},
                              !.i = Len(l.nodesToDelete)])

\* collectNodeAndChildren of the first pending id of the collection l: the
\* marking and the SELECT of the node's row
CollectRow(c, l) ==
    LET nodeID == Head(l.stack)
        rows == SelectByID(Node, nodeID)
        l1 == [l EXCEPT !.visited = @ \cup {nodeID}, !.stack = Tail(@)]
    IN IF rows = <<>>
       THEN CollectOn(c, l1)
       ELSE Goto(c, [l1 EXCEPT !.pc = "children", !.cur = Ptr(nodeID),
                               !.nodesToDelete = Append(@, rows[1])])

\* DeleteNodeAndAllChildren: the call of GetNodeAndAllChildren, up to the
\* SELECT of the row of nodeID
StmtCollect(c) ==
    \E nodeID \in IDs :
        /\ Local(c).pc = "idle"
        /\ CollectRow(c, [Idle EXCEPT !.op = "DeleteNodeAndAllChildren",
                                      !.arg = Ptr(nodeID), !.stack = <<nodeID>>])
        /\ UNCHANGED <<Node, Config, uuids, last>>

\* collectNodeAndChildren of a child: the SELECT of its row
StmtCollectNode(c) ==
    /\ Local(c).pc = "collect"
    /\ CollectRow(c, Local(c))
    /\ UNCHANGED <<Node, Config, uuids, last>>

\* collectNodeAndChildren: the SELECT of the ids of the node's children
StmtCollectChildren(c) ==
    LET l == Local(c)
        children == SelectByParent(Node, l.cur[1])
        childIDs == [i \in 1..Len(children) |-> children[i].id]
    IN /\ l.pc = "children"
       /\ CollectOn(c, [l EXCEPT !.stack = childIDs \o @, !.cur = NULL])
       /\ UNCHANGED <<Node, Config, uuids, last>>

\* Mutant: the count is raised for every DELETE issued, whatever it removed.
StmtDeleteCountsStatements(c) ==
    LET l == Local(c)
        res == ExecDelete(Node, DeleteTarget(l.nodesToDelete, l.i).id)
        deletedCount == l.deletedCount + 1
    IN /\ l.pc = "delete"
       /\ Node' = res.tbl
       /\ IF l.i - 1 < 1
          THEN Done(c, l.op, NULL, deletedCount, NoErr)
          ELSE Goto(c, [l EXCEPT !.i = l.i - 1, !.deletedCount = deletedCount])
       /\ UNCHANGED <<Config, uuids, last>>

\* DeleteNodeAndAllChildren: one pass of the delete loop
StmtDelete(c) ==
    LET l == Local(c)
        res == ExecDelete(Node, DeleteTarget(l.nodesToDelete, l.i).id)
        deletedCount == l.deletedCount + res.rowsAffected
    IN /\ l.pc = "delete"
       /\ Node' = res.tbl
       /\ IF l.i - 1 < 1
          THEN Done(c, l.op, NULL, deletedCount, NoErr)
          ELSE Goto(c, [l EXCEPT !.i = l.i - 1, !.deletedCount = deletedCount])
       /\ UNCHANGED <<Config, uuids, last>>

Stmt(c) ==
    \/ StmtRootInsert(c)
    \/ StmtChildLookup(c)
    \/ StmtChildInsert(c)
    \/ StmtSetCurrent(c)
    \/ StmtCollect(c)
    \/ StmtCollectNode(c)
    \/ StmtCollectChildren(c)
    \/ StmtDelete(c)

\* Init with the one id sequence the statement-level specifications use (no
\* statement they run orders by id)
InitStmt == Init /\ uuids = [i \in 1..MaxIds |-> i]

\* one caller, its operations observed statement by statement
NextSteps == Stmt(1)
SpecSteps == InitStmt /\ [][NextSteps]_vars

\* two callers on one store
NextConc == \E c \in Callers : Stmt(c)
SpecConc == InitStmt /\ [][NextConc]_vars

\* two callers that create nodes, statement by statement
NextCreates ==
    \E c \in Callers :
        \/ StmtRootInsert(c)
        \/ StmtChildLookup(c)
        \/ StmtChildInsert(c)
        \/ StmtSetCurrent(c)
SpecCreates == InitStmt /\ [][NextCreates]_vars

\* ------------------------------------------------------ the commands, run
\* One action per run of a command of the bai binary between two waits, on the
\* database as it is when the run starts.  A terminal runs one command at a
\* time; callers[t] holds what a waiting command of terminal t keeps in its
\* own memory.  last is the last run: its op is the command's name when the
\* command exited (last.count its exit status) and names the wait when it
\* waits; last.out is what the command listed or created, last.in what the
\* user and the environment gave it.  The statements of one run are one step,
\* which is what one user at one terminal sees: nothing else writes the
\* database while the command runs.  With a second terminal the statements of
\* two commands interleave: SpecTerminals below.
WaitResponse == "GenerateResponse"
WaitAnswer == "ReadString"
Waiting(op) ==
    CASE op = "seed" -> "seed, waiting"
      [] op = "message" -> "message, waiting"
      [] op = "prune" -> "prune, waiting"

\* The ids of a sequence of nodes
IDsOf(nodes) == [i \in 1..Len(nodes) |-> nodes[i].id]

\* The effect of the first run of a command that creates nodes.  What the
\* environment does with the request is an input only of a run that asks.
RanCreate(t, op, in, res) ==
    LET created == res.created
        node == IF created = <<>> THEN NULL ELSE Ptr(created[Len(created)])
    IN /\ Len(created) <= Len(uuids)
       /\ res.asked \/ in.outcome = "client"
       /\ Node' = res.tbl
       /\ Config' = res.cfg
       /\ uuids' = SubSeq(uuids, Len(created) + 1, Len(uuids))
       /\ IF res.waits
          THEN /\ Goto(t, [Idle EXCEPT !.pc = WaitResponse, !.op = op, !.node = node,
                                       !.in = Ptr([llm |-> in.llm, outcome |-> in.outcome,
                                                   model |-> res.model])])
               /\ last' = [Ret(Waiting(op), NULL, node, NoErr, 0)
                           EXCEPT !.out = IDsOf(created), !.in = Ptr(in)]
          ELSE /\ last' = [Ret(op, NULL, node, NoErr, res.exit)
                           EXCEPT !.out = IDsOf(created), !.in = Ptr(in)]
               /\ UNCHANGED callers

CmdSeed(t) ==
    /\ Local(t).pc = "idle"
    /\ \E llmModel \in LLMFlags, env \in LLMEnvs :
        \E res \in {SeedCmd(Node, Config, UUID, "hi", llmModel, env)} :
            RanCreate(t, "seed", [llm |-> llmModel, outcome |-> env], res)

CmdMessage(t) ==
    /\ Local(t).pc = "idle"
    /\ \E llmModel \in LLMFlags, env \in LLMEnvs :
        \E res \in {MessageCmd(Node, Config, UUID, "yo", llmModel, env)} :
            RanCreate(t, "message", [llm |-> llmModel, outcome |-> env], res)

\* client.GenerateResponse returns to the message or seed command that waits
\* for it, and the command runs to its exit.
CmdResponse(t) ==
    /\ Local(t).pc = WaitResponse
    /\ \E answer \in LLMAnswers :
        \E res \in {GenerateAndStore(Node, Config, UUID, Local(t).node[1],
                                     Local(t).in[1].model, answer)} :
           LET created == <<Local(t).node[1]>> \o res.created
           IN /\ Len(res.created) <= Len(uuids)
              /\ Node' = res.tbl
              /\ Config' = res.cfg
              /\ uuids' = SubSeq(uuids, Len(res.created) + 1, Len(uuids))
              /\ last' = [Ret(Local(t).op, NULL, Ptr(created[Len(created)]),
                              NoErr, res.exit)
                          EXCEPT !.out = IDsOf(created),
                                 !.in = Ptr([llm |-> Local(t).in[1].llm,
                                             outcome |-> answer])]
              /\ Goto(t, Idle)

CmdCheckout(t) ==
    /\ Local(t).pc = "idle"
    /\ \E nodeID \in IDs :
        LET res == CheckoutCmd(Node, Config, nodeID)
        IN /\ Node' = res.tbl
           /\ Config' = res.cfg
           /\ last' = Ret("checkout", Ptr(nodeID), NULL, NoErr, res.exit)
           /\ UNCHANGED <<uuids, callers>>

CmdCherryPick(t) ==
    /\ Local(t).pc = "idle"
    /\ CallCherryPick

CmdPrune(t) ==
    /\ Local(t).pc = "idle"
    /\ \E nodeID \in IDs :
        \E res \in {PrunePreview(Node, Config, nodeID)} :
           /\ IF res.waits
              THEN /\ Goto(t, [Idle EXCEPT !.pc = WaitAnswer, !.op = "prune",
                                           !.arg = Ptr(nodeID),
                                           !.nodesToDelete = res.nodesToDelete,
                                           !.willDeleteCurrent = res.willDeleteCurrent])
                   /\ last' = [Ret(Waiting("prune"), Ptr(nodeID), NULL,
                                   NoErr, 0)
                               EXCEPT !.out = IDsOf(res.nodesToDelete)]
              ELSE /\ last' = Ret("prune", Ptr(nodeID), NULL, NoErr, res.exit)
                   /\ UNCHANGED callers
           /\ UNCHANGED <<Node, Config, uuids>>

\* The user answers the prompt of the prune that waits for it, and the
\* command runs to its exit.
CmdAnswer(t) ==
    /\ Local(t).pc = WaitAnswer
    /\ \E stdin \in Stdins :
        \E res \in {PruneConfirm(Node, Config, Local(t).arg[1],
                                 Local(t).nodesToDelete,
                                 Local(t).willDeleteCurrent, stdin)} :
           /\ Node' = res.tbl
           /\ Config' = res.cfg
           /\ last' = [Ret("prune", Local(t).arg, NULL, NoErr, res.exit)
                       EXCEPT !.out = IDsOf(res.nodesToDelete), !.in = Ptr(stdin)]
           /\ Goto(t, Idle)
           /\ UNCHANGED uuids

CmdSeeds(t) ==
    /\ Local(t).pc = "idle"
    /\ last' = [Ret("seeds", NULL, NULL, NoErr, 0)
                EXCEPT !.out = SeedsCmd(Node, Config)]
    /\ UNCHANGED <<Node, Config, uuids, callers>>

\* one user at one terminal
NextCLI ==
    \/ CmdSeed(1)
    \/ CmdMessage(1)
    \/ CmdResponse(1)
    \/ CmdCheckout(1)
    \/ CmdCherryPick(1)
    \/ CmdPrune(1)
    \/ CmdAnswer(1)
    \/ CmdSeeds(1)
SpecCLI == Init /\ [][NextCLI]_vars

\* ------------------------------------- the commands, statement by statement
\* Every bai command is a process of its own on the one database file, and
\* each of its SQL statements is committed by itself: between two statements
\* of a command the commands of another terminal may run theirs.  Each action
\* below is one SQL statement of a command with the local computation that
\* follows it, up to the next statement, the next wait or the exit; an action
\* that starts a command or ends a wait takes the input first.  The CREATE
\* TABLE IF NOT EXISTS statements of Initialize change nothing on a database
\* that exists.  callers[t] is the memory of the command of terminal t: current
\* the pointer it read, row the node it is creating, node the user node it
\* created, preview the list it showed, roots and out the roots still to list
\* and the lines listed, runs the number of commands the terminal has started
\* (a terminal starts MaxRuns commands).
\* last is written when a command exits or comes to a wait, as in SpecCLI.
\* The memory of the command terminal t starts
Fresh(t) == [Idle EXCEPT !.runs = Local(t).runs + 1]

\* The command with memory l exits
Exits(t, l, rec) ==
    /\ Goto(t, [Idle EXCEPT !.runs = l.runs])
    /\ last' = rec

\* What a seed or message records at its exit or wait
Records(op, l, node, created, outcome, exit) ==
    [Ret(op, NULL, node, NoErr, exit)
     EXCEPT !.out = IDsOf(created),
            !.in = Ptr([llm |-> l.in[1].llm, outcome |-> outcome])]

\* What a prune records at its exit after the prompt
PruneExit(l, exit) ==
    [Ret("prune", l.arg, NULL, NoErr, exit)
     EXCEPT !.out = IDsOf(l.preview), !.in = l.in]

\* The command of terminal t got err from CreateChildNodeWithType: message and
\* cherry-pick exit with status 1; for a response it is a warning.
CreateFailed(t, l, err) ==
    IF l.op = "cherry-pick"
    THEN Exits(t, l, Ret("cherry-pick", l.arg, NULL, err, 1))
    ELSE IF l.node = NULL
    THEN Exits(t, l, Records(l.op, l, NULL, <<>>, "client", 1))
    ELSE Exits(t, l, Records(l.op, l, l.node, <<l.node[1]>>, "response", 0))

\* seed: CreateRootNode, uuid.New() and InsertNode
TermSeed(t) ==
    /\ Local(t).pc = "idle"
    /\ Local(t).runs < MaxRuns
    /\ UUID \in IDs
    /\ \E llmModel \in LLMFlags :
        LET model == IF llmModel # "" THEN Ptr(llmModel) ELSE NULL
            node == NewNode(UUID, "hi", "user", NULL, model)
            ins == InsertNode(Node, node)
            l == [Fresh(t) EXCEPT !.op = "seed", !.row = Ptr(node),
                              !.in = Ptr([llm |-> llmModel, outcome |-> "client",
                                          model |-> llmModel])]
        IN /\ Node' = ins.tbl
           /\ uuids' = Tail(uuids)
           /\ IF ins.err # NoErr
              THEN Exits(t, l, Records("seed", l, NULL, <<>>, "client", 1))
              ELSE /\ Goto(t, [l EXCEPT !.pc = "cmd: SetCurrentNode"])
                   /\ UNCHANGED last
           /\ UNCHANGED Config

\* message: GetCurrentNode
TermMessage(t) ==
    /\ Local(t).pc = "idle"
    /\ Local(t).runs < MaxRuns
    /\ \E llmModel \in LLMFlags :
        LET currentNodeID == GetCurrentNode(Config).nodeID
            l == [Fresh(t) EXCEPT !.op = "message", !.current = currentNodeID,
                              !.in = Ptr([llm |-> llmModel, outcome |-> "client",
                                          model |-> ""])]
        IN IF currentNodeID = NULL
           THEN Exits(t, l, Records("message", l, NULL, <<>>, "client", 0))
           ELSE /\ Goto(t, [l EXCEPT !.pc = "cmd: message GetNodeByID"])
                /\ UNCHANGED last
    /\ UNCHANGED <<Node, Config, uuids>>

\* message: GetNodeByID of the current node, and the model to use; on to
\* CreateChildNode
TermMessageNode(t) ==
    LET l == Local(t)
        cur == GetNodeByID(Node, l.current[1])
        model == IF l.in[1].llm # "" THEN Ptr(l.in[1].llm) ELSE cur.node[1].model
    IN /\ l.pc = "cmd: message GetNodeByID"
       /\ IF cur.err # NoErr
          THEN Exits(t, l, Records("message", l, NULL, <<>>, "client", 1))
          ELSE /\ Goto(t, [l EXCEPT !.pc = "cmd: lookup",
                                    !.row = Ptr(NewNode(0, "yo", "user", l.current, model)),
                                    !.in = Ptr([l.in[1] EXCEPT !.model =
                                                   IF model = NULL THEN ""
                                                   ELSE model[1]])])
               /\ UNCHANGED last
       /\ UNCHANGED <<Node, Config, uuids>>

\* cherry-pick: GetCurrentNode
TermCherryPick(t) ==
    /\ Local(t).pc = "idle"
    /\ Local(t).runs < MaxRuns
    /\ \E sourceNodeID \in IDs :
        LET currentNodeID == GetCurrentNode(Config).nodeID
        IN IF currentNodeID = NULL
           THEN Exits(t, Fresh(t), Ret("cherry-pick", Ptr(sourceNodeID), NULL, NoErr, 0))
           ELSE /\ Goto(t, [Fresh(t) EXCEPT !.pc = "cmd: cherry-pick GetNodeByID",
                                        !.op = "cherry-pick",
                                        !.arg = Ptr(sourceNodeID),
                                        !.current = currentNodeID])
                /\ UNCHANGED last
    /\ UNCHANGED <<Node, Config, uuids>>

\* cherry-pick: GetNodeByID of the source, the test against the current
\* node; on to CreateChildNodeWithType
TermCherryPickNode(t) ==
    LET l == Local(t)
        src == GetNodeByID(Node, l.arg[1])
        sourceNode == src.node[1]
    IN /\ l.pc = "cmd: cherry-pick GetNodeByID"
       /\ IF src.err # NoErr
          THEN Exits(t, l, Ret("cherry-pick", l.arg, NULL, src.err, 1))
          ELSE IF l.arg = l.current
          THEN Exits(t, l, Ret("cherry-pick", l.arg, NULL, NoErr, 1))
          ELSE /\ Goto(t, [l EXCEPT !.pc = "cmd: lookup",
                                    !.row = Ptr(NewNode(0, sourceNode.content,
                                                        sourceNode.type, l.current,
                                                        sourceNode.model))])
               /\ UNCHANGED last
       /\ UNCHANGED <<Node, Config, uuids>>

\* message, seed: client.GenerateResponse returns; for a response, on to
\* CreateLLMResponseNode and the parent lookup of CreateChildNodeWithType
TermResponse(t) ==
    /\ Local(t).pc = WaitResponse
    /\ \E answer \in LLMAnswers :
        LET l == Local(t)
            node == l.node[1]
        IN IF answer # "response"
           THEN Exits(t, l, Records(l.op, l, l.node, <<node>>, answer, 0))
           ELSE IF GetNodeByID(Node, node.id).err # NoErr
           THEN CreateFailed(t, l, ErrParentNotFound)
           ELSE /\ Goto(t, [l EXCEPT !.pc = "cmd: insert",
                                     !.row = Ptr(NewNode(0, LLMResponse, "llm",
                                                         Ptr(node.id),
                                                         Ptr(l.in[1].model)))])
                /\ UNCHANGED last
    /\ UNCHANGED <<Node, Config, uuids>>

\* CreateChildNodeWithType: the parent lookup and the type check
TermLookup(t) ==
    LET l == Local(t)
        row == l.row[1]
    IN /\ l.pc = "cmd: lookup"
       /\ IF GetNodeByID(Node, row.parent[1]).err # NoErr
          THEN CreateFailed(t, l, ErrParentNotFound)
          ELSE IF row.type # "user" /\ row.type # "llm"
          THEN CreateFailed(t, l, ErrInvalidType)
          ELSE Goto(t, [l EXCEPT !.pc = "cmd: insert"]) /\ UNCHANGED last
       /\ UNCHANGED <<Node, Config, uuids>>

\* CreateChildNodeWithType: uuid.New() and InsertNode
TermInsert(t) ==
    LET l == Local(t)
        node == [l.row[1] EXCEPT !.id = UUID]
        ins == InsertNode(Node, node)
    IN /\ l.pc = "cmd: insert"
       /\ UUID \in IDs
       /\ Node' = ins.tbl
       /\ uuids' = Tail(uuids)
       /\ IF ins.err # NoErr
          THEN CreateFailed(t, l, ins.err)
          ELSE /\ Goto(t, [l EXCEPT !.pc = "cmd: SetCurrentNode", !.row = Ptr(node)])
               /\ UNCHANGED last
       /\ UNCHANGED Config

\* CreateRootNode / CreateChildNodeWithType: SetCurrentNode(node.ID), and the
\* command's way from there: cherry-pick and a stored response exit; message
\* and seed with a model look for the key and the client and, with both, call
\* client.GenerateResponse.
TermSetCurrent(t) ==
    LET l == Local(t)
        id == l.row[1].id
    IN /\ l.pc = "cmd: SetCurrentNode"
       /\ Config' = SetCurrentNode(Config, id).cfg
       /\ IF l.op = "cherry-pick"
          THEN Exits(t, l, Ret("cherry-pick", l.arg, l.row, NoErr, 0))
          ELSE IF l.node # NULL
          THEN Exits(t, l, Records(l.op, l, l.row, <<l.node[1], l.row[1]>>,
                                "response", 0))
          ELSE IF l.in[1].model = ""
          THEN Exits(t, l, Records(l.op, l, l.row, <<l.row[1]>>, "client", 0))
          ELSE \E env \in LLMEnvs :
                 IF env # "client"
                 THEN Exits(t, l, Records(l.op, l, l.row, <<l.row[1]>>, env, 0))
                 ELSE /\ Goto(t, [Idle EXCEPT !.pc = WaitResponse, !.op = l.op,
                                              !.node = l.row, !.in = l.in,
                                              !.runs = l.runs])
                      /\ last' = Records(Waiting(l.op), l, l.row, <<l.row[1]>>,
                                         env, 0)
       /\ UNCHANGED <<Node, uuids>>

\* checkout: GetNodeByID
TermCheckout(t) ==
    /\ Local(t).pc = "idle"
    /\ Local(t).runs < MaxRuns
    /\ \E nodeID \in IDs :
        IF GetNodeByID(Node, nodeID).err # NoErr
        THEN Exits(t, Fresh(t), Ret("checkout", Ptr(nodeID), NULL, NoErr, 1))
        ELSE /\ Goto(t, [Fresh(t) EXCEPT !.pc = "cmd: checkout GetCurrentNode",
                                     !.op = "checkout", !.arg = Ptr(nodeID)])
             /\ UNCHANGED last
    /\ UNCHANGED <<Node, Config, uuids>>

\* checkout: GetCurrentNode and the test "already on this node"
TermCheckoutCurrent(t) ==
    LET l == Local(t)
    IN /\ l.pc = "cmd: checkout GetCurrentNode"
       /\ IF GetCurrentNode(Config).nodeID = l.arg
          THEN Exits(t, l, Ret("checkout", l.arg, NULL, NoErr, 0))
          ELSE /\ Goto(t, [l EXCEPT !.pc = "cmd: checkout SetCurrentNode"])
               /\ UNCHANGED last
       /\ UNCHANGED <<Node, Config, uuids>>

\* checkout: SetCurrentNode
TermCheckoutSet(t) ==
    LET l == Local(t)
    IN /\ l.pc = "cmd: checkout SetCurrentNode"
       /\ Config' = SetCurrentNode(Config, l.arg[1]).cfg
       /\ Exits(t, l, Ret("checkout", l.arg, NULL, NoErr, 0))
       /\ UNCHANGED <<Node, uuids>>

\* seeds: the roots that get their line without a statement: all of them
\* while no pointer was read, and the root the pointer names
RECURSIVE SeedsLines(_)
SeedsLines(l) ==
    IF l.roots = <<>> THEN l
    ELSE LET node == Head(l.roots)
         IN IF l.current = NULL
            THEN SeedsLines([l EXCEPT !.roots = Tail(@),
                                      !.out = Append(@, [id |-> node.id,
                                                         statusMessage |-> NoMark])])
            ELSE IF l.current[1] = node.id
            THEN SeedsLines([l EXCEPT !.roots = Tail(@),
                                      !.out = Append(@, [id |-> node.id,
                                                         statusMessage |-> MarkCurrent])])
            ELSE l

\* seeds: on with the loop over the roots, to the exit or to the
\* GetNodeAndAllChildren of the next root that needs one
SeedsOn(t, l) ==
    \E l1 \in {SeedsLines(l)} :
        IF l1.roots = <<>>
        THEN Exits(t, l, [Ret("seeds", NULL, NULL, NoErr, 0) EXCEPT !.out = l1.out])
        ELSE /\ Goto(t, [l1 EXCEPT !.pc = "cmd: collect",
                                   !.stack = <<Head(l1.roots).id>>,
                                   !.visited = {}, !.nodesToDelete = <<>>])
             /\ UNCHANGED last

\* DeleteNodeAndAllChildren has returned to prune: ClearCurrentNode is next
\* when the preview held the current node.
Deleted(t, l) ==
    IF l.willDeleteCurrent
    THEN Goto(t, [l EXCEPT !.pc = "cmd: ClearCurrentNode"]) /\ UNCHANGED last
    ELSE Exits(t, l, PruneExit(l, 0))

\* GetNodeAndAllChildren has returned the list l.nodesToDelete: to prune for
\* its preview, to DeleteNodeAndAllChildren, or to seeds for the mark of a
\* root.
TermCollected(t, l) ==
    IF l.op = "seeds"
    THEN LET node == Head(l.roots)
             descendants == l.nodesToDelete
             statusMessage ==
                 IF \E k \in 1..Len(descendants) :
                        /\ descendants[k].id = l.current[1]
                        /\ descendants[k].id # node.id
                 THEN MarkContains ELSE NoMark
         IN SeedsOn(t, [l EXCEPT !.roots = Tail(@),
                                 !.out = Append(@, [id |-> node.id,
                                                    statusMessage |-> statusMessage])])
    ELSE IF l.phase = "preview"
    THEN IF Len(l.nodesToDelete) = 0
         THEN Exits(t, l, Ret("prune", l.arg, NULL, NoErr, 1))
         ELSE /\ Goto(t, [l EXCEPT !.pc = "cmd: prune GetCurrentNode",
                                   !.stack = <<>>, !.visited = {}])
              /\ UNCHANGED last
    ELSE IF Len(l.nodesToDelete) = 0
    THEN Deleted(t, l)
    ELSE /\ Goto(t, [l EXCEPT !.pc = "cmd: delete", !.stack = <<>>, !.visited = {},
                              !.i = Len(l.nodesToDelete)])
         /\ UNCHANGED last

\* The local computation of a collection l after one of its SELECTs
TermCollectOn(t, l) ==
    \E stack \in {DropVisited(l.stack, l.visited)} :
        IF stack # <<>>
        THEN Goto(t, [l EXCEPT !.pc = "cmd: collect", !.stack = stack])
             /\ UNCHANGED last
        ELSE TermCollected(t, [l EXCEPT !.stack = <<>>])

\* collectNodeAndChildren of the first pending id of the collection l: the
\* marking and the SELECT of the node's row
TermCollectRow(t, l) ==
    LET nodeID == Head(l.stack)
        rows == SelectByID(Node, nodeID)
        l1 == [l EXCEPT !.visited = @ \cup {nodeID}, !.stack = Tail(@)]
    IN IF rows = <<>>
       THEN TermCollectOn(t, l1)
       ELSE /\ Goto(t, [l1 EXCEPT !.pc = "cmd: children", !.cur = Ptr(nodeID),
                                  !.nodesToDelete = Append(@, rows[1])])
            /\ UNCHANGED last

\* prune: GetNodeAndAllChildren for the preview, up to the SELECT of the row
\* of nodeID
TermPrune(t) ==
    /\ Local(t).pc = "idle"
    /\ Local(t).runs < MaxRuns
    /\ \E nodeID \in IDs :
        TermCollectRow(t, [Fresh(t) EXCEPT !.op = "prune", !.phase = "preview",
                                       !.arg = Ptr(nodeID), !.stack = <<nodeID>>])
    /\ UNCHANGED <<Node, Config, uuids>>

\* collectNodeAndChildren of a child, or of a root of the listing: the SELECT
\* of its row
TermCollectNode(t) ==
    /\ Local(t).pc = "cmd: collect"
    /\ TermCollectRow(t, Local(t))
    /\ UNCHANGED <<Node, Config, uuids>>

\* collectNodeAndChildren: the SELECT of the ids of the node's children
TermCollectChildren(t) ==
    LET l == Local(t)
        children == SelectByParent(Node, l.cur[1])
        childIDs == [i \in 1..Len(children) |-> children[i].id]
    IN /\ l.pc = "cmd: children"
       /\ TermCollectOn(t, [l EXCEPT !.stack = childIDs \o @, !.cur = NULL])
       /\ UNCHANGED <<Node, Config, uuids>>

\* prune: GetCurrentNode, willDeleteCurrent, and the prompt
TermPruneCurrent(t) ==
    LET l == Local(t)
        nodesToDelete == l.nodesToDelete
        currentNodeID == GetCurrentNode(Config).nodeID
        willDeleteCurrent ==
            /\ currentNodeID # NULL
            /\ \E i \in 1..Len(nodesToDelete) : nodesToDelete[i].id = currentNodeID[1]
    IN /\ l.pc = "cmd: prune GetCurrentNode"
       /\ Goto(t, [Idle EXCEPT !.pc = WaitAnswer, !.op = "prune", !.arg = l.arg,
                               !.nodesToDelete = nodesToDelete,
                               !.willDeleteCurrent = willDeleteCurrent,
                               !.runs = l.runs])
       /\ last' = [Ret(Waiting("prune"), l.arg, NULL, NoErr, 0)
                   EXCEPT !.out = IDsOf(nodesToDelete)]
       /\ UNCHANGED <<Node, Config, uuids>>

\* prune: the user answers the prompt; for y or yes, on to
\* DeleteNodeAndAllChildren, up to the SELECT of the row of nodeID
TermAnswer(t) ==
    /\ Local(t).pc = WaitAnswer
    /\ \E stdin \in Stdins :
        LET l == [Local(t) EXCEPT !.preview = Local(t).nodesToDelete,
                                  !.in = Ptr(stdin)]
            read == ReadString(stdin)
            response == TrimSpace(ToLower(read.line))
        IN IF read.err # NoErr
           THEN Exits(t, l, PruneExit(l, 1))
           ELSE IF response # AnswerY /\ response # AnswerYes
           THEN Exits(t, l, PruneExit(l, 0))
           ELSE TermCollectRow(t, [l EXCEPT !.phase = "delete",
                                            !.nodesToDelete = <<>>,
                                            !.stack = <<l.arg[1]>>])
    /\ UNCHANGED <<Node, Config, uuids>>

\* DeleteNodeAndAllChildren: one pass of the delete loop
TermDelete(t) ==
    LET l == Local(t)
        res == ExecDelete(Node, DeleteTarget(l.nodesToDelete, l.i).id)
        deletedCount == l.deletedCount + res.rowsAffected
    IN /\ l.pc = "cmd: delete"
       /\ Node' = res.tbl
       /\ IF l.i - 1 < 1
          THEN Deleted(t, [l EXCEPT !.deletedCount = deletedCount])
          ELSE /\ Goto(t, [l EXCEPT !.i = l.i - 1, !.deletedCount = deletedCount])
               /\ UNCHANGED last
       /\ UNCHANGED <<Config, uuids>>

\* prune: ClearCurrentNode
TermClear(t) ==
    LET l == Local(t)
    IN /\ l.pc = "cmd: ClearCurrentNode"
       /\ Config' = ClearCurrentNode(Config).cfg
       /\ Exits(t, l, PruneExit(l, 0))
       /\ UNCHANGED <<Node, uuids>>

\* seeds: GetRootNodes
TermSeeds(t) ==
    /\ Local(t).pc = "idle"
    /\ Local(t).runs < MaxRuns
    /\ Goto(t, [Fresh(t) EXCEPT !.pc = "cmd: seeds GetCurrentNode", !.op = "seeds",
                            !.roots = GetRootNodes(Node).nodes])
    /\ UNCHANGED <<Node, Config, uuids, last>>

\* seeds: GetCurrentNode, and into the loop over the roots
TermSeedsCurrent(t) ==
    /\ Local(t).pc = "cmd: seeds GetCurrentNode"
    /\ SeedsOn(t, [Local(t) EXCEPT !.current = GetCurrentNode(Config).nodeID])
    /\ UNCHANGED <<Node, Config, uuids>>

\* two terminals on one database
NextTerminals ==
    \E t \in Callers :
        \/ TermSeed(t)
        \/ TermMessage(t)
        \/ TermMessageNode(t)
        \/ TermCherryPick(t)
        \/ TermCherryPickNode(t)
        \/ TermResponse(t)
        \/ TermLookup(t)
        \/ TermInsert(t)
        \/ TermSetCurrent(t)
        \/ TermCheckout(t)
        \/ TermCheckoutCurrent(t)
        \/ TermCheckoutSet(t)
        \/ TermPrune(t)
        \/ TermCollectNode(t)
        \/ TermCollectChildren(t)
        \/ TermPruneCurrent(t)
        \/ TermAnswer(t)
        \/ TermDelete(t)
        \/ TermClear(t)
        \/ TermSeeds(t)
        \/ TermSeedsCurrent(t)
SpecTerminals == Init /\ [][NextTerminals]_vars

\* ------------------------------------------------ any table, one caller
\* The subtree collection and the prune on every table the backend can hold,
\* also those no sequence of store operations produces: ids are unique
\* (PRIMARY KEY), a parent is NULL or any id (the schema declares no foreign
\* key), so parent links may dangle or form cycles.
AnyParents == {NULL} \cup {Ptr(p) : p \in IDs}

RECURSIVE TableOf(_, _, _)
TableOf(S, parent, k) ==
    IF k > MaxIds THEN <<>>
    ELSE (IF k \in S THEN <<NewNode(k, "hi", "user", parent[k], NULL)>> ELSE <<>>)
         \o TableOf(S, parent, k + 1)

AnyTables == UNION {{TableOf(S, parent, 1) : parent \in [S -> AnyParents]} : S \in SUBSET IDs}

InitAny ==
    /\ Node \in AnyTables
    /\ Config = NULL
    /\ uuids = <<>>
    /\ last = Ret("Initialize", NULL, NULL, NoErr, 0)
    /\ callers = [c \in Callers |-> Idle]

CallGetNodeAndAllChildren ==
    \E nodeID \in IDs :
        LET res == GetNodeAndAllChildren(Node, nodeID)
        IN /\ last' = [Ret("GetNodeAndAllChildren", Ptr(nodeID), NULL, res.err, 0)
                          EXCEPT !.out = [i \in 1..Len(res.nodes) |-> res.nodes[i].id]]
           /\ UNCHANGED <<Node, Config, uuids, callers>>

NextAny ==
    \/ CallGetNodeAndAllChildren
    \/ StmtCollect(1)
    \/ StmtCollectNode(1)
    \/ StmtCollectChildren(1)
    \/ StmtDelete(1)

SpecAny == InitAny /\ [][NextAny]_vars

\* ------------------------------------ the store with InsertNode called directly
\* InsertNode called by a caller of its own, with a row of the caller's making:
\* any id, any parent, a type the schema accepts or not.  Nothing of the row is
\* looked up first, so this is the call by which a table comes to hold a
\* parent that names no row, or a cycle.
InsertInputs ==
    {NewNode(id, "hi", type, parent, NULL) :
        id \in IDs, type \in {"user", "bot"}, parent \in AnyParents}

CallInsertNode ==
    \E node \in InsertInputs :
        \E res \in {InsertNode(Node, node)} :
           /\ Node' = res.tbl
           /\ last' = Ret("InsertNode", Ptr(node.id),
                          IF res.err = NoErr THEN Ptr(node) ELSE NULL, res.err, 0)
           /\ UNCHANGED <<Config, uuids, callers>>

\* A new database on which a caller inserts rows of its own making, prunes and
\* collects subtrees: the tables of InitAny come about this way, in every
\* order of their rows.
InitInsert ==
    /\ Node = <<>>
    /\ Config = NULL
    /\ uuids = <<>>
    /\ last = Ret("Initialize", NULL, NULL, NoErr, 0)
    /\ callers = [c \in Callers |-> Idle]

NextInsert ==
    \/ CallInsertNode
    \/ CallGetNodeAndAllChildren
    \/ CallDeleteNodeAndAllChildren

SpecInsert == InitInsert /\ [][NextInsert]_vars

\* ----------------------------------------- the ancestor walks, any table
\* GetParentPath and GetConversationHistory called on every table the backend
\* can hold; last.count records maxLevels, last.out the ids returned.
\* maxLevels 0 stands for every maxLevels <= 0 (the loop tests maxLevels > 0).
\* A walk without a cap on a table whose parent links run in a cycle never
\* leaves its loop: such a call does not return, and completes no step.
WalkLevels == 0..MaxIds

CallGetParentPath ==
    \E nodeID \in IDs, maxLevels \in WalkLevels :
        LET res == GetParentPath(Node, nodeID, maxLevels)
        IN /\ ~res.cut
           /\ last' = [Ret("GetParentPath", Ptr(nodeID), NULL, res.err, maxLevels)
                          EXCEPT !.out = [i \in 1..Len(res.nodes) |-> res.nodes[i].id]]
           /\ UNCHANGED <<Node, Config, uuids, callers>>

CallGetConversationHistory ==
    \E nodeID \in IDs :
        LET res == GetConversationHistory(Node, nodeID)
        IN /\ ~res.cut
           /\ last' = [Ret("GetConversationHistory", Ptr(nodeID), NULL, res.err, 0)
                          EXCEPT !.out = [i \in 1..Len(res.nodes) |-> res.nodes[i].id]]
           /\ UNCHANGED <<Node, Config, uuids, callers>>

NextWalk ==
    \/ CallGetParentPath
    \/ CallGetConversationHistory

SpecWalk == InitAny /\ [][NextWalk]_vars

\* ------------------------------------------------------------ the forest
\* The parent relation of a table, read off the rows (not through the store's
\* traversals): the reference the traversals are compared with.
Exists(tbl, id) == id \in RowIDs(tbl)
RowOf(tbl, id) == CHOOSE r \in Range(tbl) : r.id = id
ParentOf(tbl, id) == IF Exists(tbl, id) THEN RowOf(tbl, id).parent ELSE NULL

\* parent(id), parent(parent(id)), ...: at most k of them
RECURSIVE Up(_, _, _)
Up(tbl, id, k) ==
    IF k = 0 \/ ParentOf(tbl, id) = NULL THEN <<>>
    ELSE <<ParentOf(tbl, id)[1]>> \o Up(tbl, ParentOf(tbl, id)[1], k - 1)

Ancestors(tbl, id) == Range(Up(tbl, id, Len(tbl)))
Depth(tbl, id) == Len(Up(tbl, id, Len(tbl)))
Descendants(tbl, id) == {d \in RowIDs(tbl) : id \in Ancestors(tbl, d)}
IdsOf(nodes) == [i \in 1..Len(nodes) |-> nodes[i].id]
Reverse(s) == [i \in 1..Len(s) |-> s[Len(s) + 1 - i]]
NoDuplicates(s) == \A i, j \in 1..Len(s) : s[i] = s[j] => i = j
Min(a, b) == IF a <= b THEN a ELSE b

ReferentialIntegrity(tbl) ==
    \A r \in Range(tbl) : r.parent # NULL => GetNodeByID(tbl, r.parent[1]).err = NoErr
Forest(tbl) == \A id \in RowIDs(tbl) : id \notin Ancestors(tbl, id)

\* maxLevels values tried: unbounded (negative and 0) and every cap up to MaxIds
Levels == -1..MaxIds

\* ------------------------------------------------------------------ claims
\* C1: after any completed sequence of store operations by one caller, every
\* node whose parent is present has a parent id that resolves to an existing node.
C1_ReferentialIntegrity == ReferentialIntegrity(Node)

\* a prune has removed nodes and a node with a parent is still there
C1_Witness ==
    /\ last.op = "DeleteNodeAndAllChildren" /\ last.count >= 1
    /\ \E r \in Range(Node) : r.parent # NULL

\* C2: after any sequence of create-root, create-child, cherry-pick and prune,
\* no node is its own ancestor.
C2_Forest == Forest(Node)

\* a cherry-pick has created a node that has a grandparent
C2_Witness ==
    /\ last.op = "cherry-pick" /\ last.id # NULL
    /\ Depth(Node, last.id[1]) >= 2

\* C3: a prune of an existing id removes exactly the nodes the subtree
\* collection returns for it: the count is the size of that set, the id and
\* every former descendant no longer resolve, every other row stays.
C3_PruneExact ==
    [][\A nodeID \in IDs :
        (/\ last'.op = "DeleteNodeAndAllChildren"
         /\ last'.arg = Ptr(nodeID)
         /\ GetNodeByID(Node, nodeID).err = NoErr)
        => LET sub == IdsOf(GetNodeAndAllChildren(Node, nodeID).nodes)
               Kept(r) == r.id \notin Range(sub)
           IN /\ last'.count = Cardinality(Range(sub))
              /\ last'.err = NoErr
              /\ nodeID \in Range(sub)
              /\ \A d \in Range(sub) : GetNodeByID(Node', d).err = ErrNotFound
              /\ Node' = SelectSeq(Node, Kept)]_vars

\* a prune has removed a node together with at least one descendant, and other
\* nodes are left
C3_Witness ==
    /\ last.op = "DeleteNodeAndAllChildren" /\ last.count >= 2
    /\ Node # <<>>

\* C4: while one caller's prune of a forest is between two of its DELETEs, no
\* remaining node has a parent this prune has already deleted, and the root of
\* the pruned subtree is still there (it goes last).
C4_PruneOrder ==
    \A c \in Callers :
        Local(c).pc = "delete" =>
            LET gone == RowIDs(Local(c).nodesToDelete) \ RowIDs(Node)
            IN /\ \A r \in Range(Node) : r.parent # NULL => r.parent[1] \notin gone
               /\ GetNodeByID(Node, Local(c).arg[1]).err = NoErr

\* a prune of three or more nodes has deleted some of them and not yet all
C4_Witness ==
    \E c \in Callers :
        /\ Local(c).pc = "delete"
        /\ Len(Local(c).nodesToDelete) >= 3
        /\ Local(c).i < Len(Local(c).nodesToDelete)
        /\ Local(c).deletedCount >= 1

\* C5: the conversation history of an existing node n contains n, runs from the
\* root to n, and reversed it is n followed by the unbounded ancestor chain.
C5_HistoryOrder ==
    \A n \in RowIDs(Node) :
        LET h == GetConversationHistory(Node, n)
            path == GetParentPath(Node, n, 0)
        IN /\ h.err = NoErr /\ path.err = NoErr
           /\ h.nodes # <<>>
           /\ h.nodes[Len(h.nodes)].id = n
           /\ h.nodes[1].parent = NULL
           /\ Reverse(h.nodes) = <<RowOf(Node, n)>> \o path.nodes

\* some node has a history of three or more turns
C5_Witness ==
    \E n \in RowIDs(Node) : Len(GetConversationHistory(Node, n).nodes) >= 3

\* C6: GetParentPath(n, maxLevels) of an existing node n with d ancestors is
\* parent(n), parent(parent(n)), ...: all d of them when maxLevels <= 0, the
\* first min(maxLevels, d) when maxLevels > 0.
C6_ParentPath ==
    \A n \in RowIDs(Node), maxLevels \in Levels :
        LET path == GetParentPath(Node, n, maxLevels)
            d == Depth(Node, n)
            want == IF maxLevels <= 0 THEN d ELSE Min(maxLevels, d)
        IN /\ path.err = NoErr
           /\ Len(path.nodes) = want
           /\ IdsOf(path.nodes) = Up(Node, n, want)
           /\ \A i \in 1..want : path.nodes[i] = RowOf(Node, path.nodes[i].id)

\* a node has two ancestors, so that maxLevels = 1 cuts the chain short
C6_Witness ==
    \E n \in RowIDs(Node) :
        /\ Depth(Node, n) >= 2
        /\ Len(GetParentPath(Node, n, 1).nodes) = 1
        /\ Len(GetParentPath(Node, n, 0).nodes) >= 2

\* C7: GetNodeAndAllChildren(id) of an existing id is id with all its
\* transitive descendants, nothing else, each node once.
C7_Subtree ==
    \A id \in RowIDs(Node) :
        LET res == GetNodeAndAllChildren(Node, id)
        IN /\ res.err = NoErr
           /\ Range(IdsOf(res.nodes)) = {id} \cup Descendants(Node, id)
           /\ NoDuplicates(IdsOf(res.nodes))
           /\ \A i \in 1..Len(res.nodes) : res.nodes[i] = RowOf(Node, res.nodes[i].id)

\* one node has a child and a grandchild, and another node's subtree leaves
\* some node of the table out
C7_Witness ==
    /\ \E id \in RowIDs(Node) :
           \E d \in Descendants(Node, id) : Depth(Node, d) >= Depth(Node, id) + 2
    /\ \E id \in RowIDs(Node) :
           /\ Descendants(Node, id) # {}
           /\ RowIDs(Node) # {id} \cup Descendants(Node, id)

\* C8: when a CreateChildNodeWithType of one caller and a
\* DeleteNodeAndAllChildren of another have run interleaved and both have
\* completed, every node whose parent is present has a parent that exists.
C8_CreateAgainstPrune ==
    (\E c1, c2 \in Callers :
        /\ Local(c1).pc = "idle" /\ Local(c1).op = "CreateChildNodeWithType"
        /\ Local(c2).pc = "idle" /\ Local(c2).op = "DeleteNodeAndAllChildren")
    => ReferentialIntegrity(Node)

\* C9: on any table, cyclic parent links included, the subtree collection ends
\* (within one call per row plus one) and returns no node twice, and a prune
\* never issues a DELETE for a row it has already deleted.
C9_CycleGuard ==
    /\ \A id \in IDs :
           LET res == GetNodeAndAllChildren(Node, id)
           IN /\ ~res.cut
              /\ res.calls <= Len(Node) + 1
              /\ NoDuplicates(IdsOf(res.nodes))
    /\ NoDuplicates(last.out)
    /\ \A c \in Callers :
           Local(c).pc = "delete" =>
               /\ NoDuplicates(IdsOf(Local(c).nodesToDelete))
               /\ \A k \in 1..Local(c).i :
                      DeleteTarget(Local(c).nodesToDelete, k).id \in RowIDs(Node)

\* a prune has deleted part of a collected set of two or more nodes whose
\* parent links form a cycle through the pruned node (every collected node,
\* the pruned one included, has its parent in the set)
C9_Witness ==
    \E c \in Callers :
        /\ Local(c).pc = "delete"
        /\ Local(c).deletedCount >= 1
        /\ Len(Local(c).nodesToDelete) >= 2
        /\ \A k \in 1..Len(Local(c).nodesToDelete) :
               LET r == Local(c).nodesToDelete[k]
               IN r.parent # NULL /\ r.parent[1] \in RowIDs(Local(c).nodesToDelete)

\* C10: in every state reached through the store's operations both ancestor
\* walks end, for every id and every maxLevels, after at most as many parent
\* steps as there are nodes.
C10_WalksTerminate ==
    \A id \in IDs :
        /\ \A maxLevels \in Levels :
               LET path == GetParentPath(Node, id, maxLevels)
               IN ~path.cut /\ path.steps <= Len(Node)
        /\ LET h == GetConversationHistory(Node, id)
           IN ~h.cut /\ h.steps <= Len(Node)

\* both walks from some node take two parent steps
C10_Witness ==
    \E id \in RowIDs(Node) :
        /\ GetConversationHistory(Node, id).steps >= 2
        /\ GetParentPath(Node, id, 0).steps >= 2

\* The operations that create a node, and what GetCurrentNode returns when no
\* pointer is stored.
CreateOps == {"CreateRootNode", "CreateChildNode", "CreateChildNodeWithType",
              "CreateLLMResponseNode", "cherry-pick"}
Unset == [nodeID |-> NULL, err |-> NoErr]

\* C11: after every create that succeeded (CreateRootNode, CreateChildNode,
\* CreateChildNodeWithType, CreateLLMResponseNode, cherry-pick) GetCurrentNode
\* returns the id of the node just created.
C11_PointerFollowsCreate ==
    (last.op \in CreateOps /\ last.err = NoErr /\ last.node # NULL)
    => GetCurrentNode(Config) = [nodeID |-> Ptr(last.node[1].id), err |-> NoErr]

\* a cherry-pick has copied a node under a node that has a parent itself
C11_Witness ==
    /\ last.op = "cherry-pick" /\ last.err = NoErr /\ last.node # NULL
    /\ last.node[1].parent # NULL
    /\ ParentOf(Node, last.node[1].parent[1]) # NULL

\* C12: right after a create that succeeded, GetNodeByID of the new id returns
\* a record with the id, content, kind, parent and model of the node the create
\* returned; the new id is the id of no node that was in the store; a node made
\* by CreateRootNode has kind 'user' and no parent.
C12_CreateRoundTrip ==
    [][(last'.op \in CreateOps /\ last'.err = NoErr /\ last'.node # NULL)
       => LET n == last'.node[1]
              got == GetNodeByID(Node', n.id)
          IN /\ got.err = NoErr
             /\ got.node # NULL
             /\ got.node[1].id = n.id
             /\ got.node[1].content = n.content
             /\ got.node[1].type = n.type
             /\ got.node[1].parent = n.parent
             /\ got.node[1].model = n.model
             /\ n.id \notin RowIDs(Node)
             /\ (last'.op = "CreateRootNode" => (n.type = "user" /\ n.parent = NULL))]_vars

\* a root with a model has been created in a store that held a node already
C12_Witness ==
    /\ last.op = "CreateRootNode" /\ last.err = NoErr /\ last.node # NULL
    /\ last.node[1].model # NULL
    /\ Len(Node) >= 2

\* C13: CreateChildNodeWithType given a parentID that resolves to no node, or a
\* kind other than 'user' and 'llm', returns an error and no node, inserts
\* nothing and leaves the pointer as it was.
C13_CreateChildRejects ==
    [][/\ \A in \in TypedInputs, parentID \in IDs :
            LET res == CreateChildNodeWithType(Node, Config, UUID, in.content,
                                               parentID, in.type, in.model)
            IN (GetNodeByID(Node, parentID).err # NoErr \/ in.type \notin {"user", "llm"})
               => /\ res.err # NoErr
                  /\ res.node = NULL
                  /\ res.tbl = Node
                  /\ res.cfg = Config
       /\ \A parentID \in IDs :
            (/\ last'.op \in {"CreateChildNode", "CreateChildNodeWithType",
                              "CreateLLMResponseNode"}
             /\ last'.arg = Ptr(parentID)
             /\ GetNodeByID(Node, parentID).err # NoErr)
            => /\ last'.err = ErrParentNotFound
               /\ last'.node = NULL
               /\ Node' = Node
               /\ Config' = Config
       /\ (last'.op = "CreateChildNodeWithType" /\ last'.err = ErrInvalidType)
            => /\ last'.node = NULL
               /\ Node' = Node
               /\ Config' = Config]_vars

\* a create with a kind that is neither 'user' nor 'llm' has been refused in a
\* store that holds nodes and a pointer
C13_Witness ==
    /\ last.op = "CreateChildNodeWithType" /\ last.err = ErrInvalidType
    /\ last.arg # NULL /\ Exists(Node, last.arg[1])
    /\ Config # NULL

\* C14: when a create's insert succeeds and its pointer write fails, the create
\* returns the node together with an error, the node is stored and resolves,
\* and the pointer has the value it had before the call.
C14_PartialFailure ==
    [][(/\ last'.op \in {"CreateRootNode", "CreateChildNodeWithType"}
        /\ last'.fault = "SetCurrentNode"
        /\ last'.err \notin {ErrParentNotFound, ErrInvalidType})
       => /\ last'.node # NULL
          /\ last'.err = ErrNotCurrent
          /\ Node' = Append(Node, last'.node[1])
          /\ GetNodeByID(Node', last'.node[1].id) = [node |-> last'.node, err |-> NoErr]
          /\ Config' = Config
          /\ GetCurrentNode(Config') = GetCurrentNode(Config)]_vars

\* a child has been inserted while the pointer, set before, stayed on another node
C14_Witness ==
    /\ last.op = "CreateChildNodeWithType" /\ last.fault = "SetCurrentNode"
    /\ last.err = ErrNotCurrent /\ last.node # NULL
    /\ Exists(Node, last.node[1].id)
    /\ Config # NULL /\ Config # last.id

\* C15: a cherry-pick of an existing node s, with the pointer on an existing
\* node d other than s, returns a new node with the content, kind and model of
\* s, an id other than the id of s, and parent d; s still resolves afterwards,
\* with every field as before.
C15_CherryPickCopies ==
    [][\A s, d \in IDs :
        (/\ last'.op = "cherry-pick"
         /\ last'.arg = Ptr(s)
         /\ GetNodeByID(Node, s).err = NoErr
         /\ GetCurrentNode(Config).nodeID = Ptr(d)
         /\ GetNodeByID(Node, d).err = NoErr
         /\ s # d)
        => /\ last'.node # NULL
           /\ last'.err = NoErr
           /\ LET n == last'.node[1]
                  src == GetNodeByID(Node, s).node[1]
              IN /\ n.content = src.content
                 /\ n.type = src.type
                 /\ n.model = src.model
                 /\ n.id # s
                 /\ n.parent = Ptr(d)
                 /\ GetNodeByID(Node', n.id) = [node |-> Ptr(n), err |-> NoErr]
                 /\ GetNodeByID(Node', s) = [node |-> Ptr(src), err |-> NoErr]]_vars

\* C15 as stated, for every existing s and every existing d the pointer is on,
\* s = d included: the cherry-pick returns a new node with the content, kind
\* and model of s, an id other than the id of s, and parent d, and s resolves
\* afterwards as before.  Violated by a cherry-pick of the current node, which
\* the command refuses.
C15_CherryPickCopiesAlways ==
    [][\A s, d \in IDs :
        (/\ last'.op = "cherry-pick"
         /\ last'.arg = Ptr(s)
         /\ GetNodeByID(Node, s).err = NoErr
         /\ GetCurrentNode(Config).nodeID = Ptr(d)
         /\ GetNodeByID(Node, d).err = NoErr)
        => /\ last'.node # NULL
           /\ last'.err = NoErr
           /\ LET n == last'.node[1]
                  src == GetNodeByID(Node, s).node[1]
              IN /\ n.content = src.content
                 /\ n.type = src.type
                 /\ n.model = src.model
                 /\ n.id # s
                 /\ n.parent = Ptr(d)
                 /\ GetNodeByID(Node', n.id) = [node |-> Ptr(n), err |-> NoErr]
                 /\ GetNodeByID(Node', s) = [node |-> Ptr(src), err |-> NoErr]]_vars

\* a cherry-pick has copied an 'llm' node that carries a model
C15_Witness ==
    /\ last.op = "cherry-pick" /\ last.err = NoErr /\ last.node # NULL
    /\ last.node[1].type = "llm" /\ last.node[1].model # NULL
    /\ Exists(Node, last.arg[1])

\* C16: a cherry-pick that succeeded added exactly one node, which has no
\* children, and every node that was in the store is there as before, with the
\* same id, content, kind, parent and model.
C16_CherryPickOneNode ==
    [][(last'.op = "cherry-pick" /\ last'.err = NoErr /\ last'.node # NULL)
       => LET n == last'.node[1]
          IN /\ Len(Node') = Len(Node) + 1
             /\ RowIDs(Node') = RowIDs(Node) \cup {n.id}
             /\ n.id \notin RowIDs(Node)
             /\ \A r \in Range(Node) :
                    GetNodeByID(Node', r.id) = [node |-> Ptr(r), err |-> NoErr]
             /\ GetDirectChildren(Node', n.id).nodes = <<>>
             /\ Descendants(Node', n.id) = {}]_vars

\* a cherry-pick has copied a node that has a child of its own
C16_Witness ==
    /\ last.op = "cherry-pick" /\ last.err = NoErr /\ last.node # NULL
    /\ \E c \in Range(Node) : c.id # last.node[1].id /\ c.parent = last.arg

\* C17: DeleteNodeAndAllChildren leaves the pointer record as it was, whether
\* or not the node it names was among the deleted ones.
C17_PruneKeepsPointer ==
    [][last'.op = "DeleteNodeAndAllChildren"
       => Config' = Config /\ GetCurrentNode(Config') = GetCurrentNode(Config)]_vars

\* a prune has removed the node the pointer names, and the pointer names it still
C17_Witness ==
    /\ last.op = "DeleteNodeAndAllChildren" /\ last.count >= 1
    /\ GetCurrentNode(Config).nodeID = last.arg
    /\ GetNodeByID(Node, last.arg[1]).err = ErrNotFound

\* C18: at most one pointer value is stored; GetCurrentNode returns nil and no
\* error in the store as initialized and after a clear, the id given after a
\* SetCurrentNode (the one a create makes included), and what it returned
\* before after any other call.
C18_PointerSingleton ==
    /\ GetCurrentNode(Config) = Unset
    /\ [][/\ Len(Config') <= 1
          /\ GetCurrentNode(Config') =
               IF last'.op = "SetCurrentNode"
               THEN [nodeID |-> last'.arg, err |-> NoErr]
               ELSE IF last'.op = "ClearCurrentNode"
               THEN Unset
               ELSE IF last'.op \in CreateOps /\ last'.node # NULL
               THEN [nodeID |-> Ptr(last'.node[1].id), err |-> NoErr]
               ELSE GetCurrentNode(Config)]_vars

\* SetCurrentNode has replaced a pointer value by another
C18_Witness ==
    /\ last.op = "SetCurrentNode"
    /\ Len(Node) >= 2
    /\ GetCurrentNode(Config).nodeID = last.arg
    /\ last.arg # Ptr(Node[Len(Node)].id)

\* C19: ClearCurrentNode returns no error, also when no pointer is stored, and
\* then changes nothing; after it GetCurrentNode returns nil, a second clear
\* gives the same store, and the node table is as before.
C19_ClearIdempotent ==
    [][last'.op = "ClearCurrentNode"
       => /\ last'.err = NoErr
          /\ GetCurrentNode(Config') = Unset
          /\ GetCurrentNode(Config) = Unset => Config' = Config
          /\ ClearCurrentNode(Config').err = NoErr
          /\ ClearCurrentNode(Config').cfg = Config'
          /\ Node' = Node]_vars

\* a clear has run in a store with nodes and no pointer
C19_Witness ==
    /\ last.op = "ClearCurrentNode" /\ last.count = 0 /\ last.err = NoErr
    /\ Node # <<>>
    /\ Config = NULL

\* C20: SetCurrentNode returns no error for every id, one that resolves to no
\* node included; GetCurrentNode then returns that id, and the node table is
\* as before.
C20_SetDoesNotValidate ==
    [][\A nodeID \in IDs :
        (last'.op = "SetCurrentNode" /\ last'.arg = Ptr(nodeID))
        => /\ last'.err = NoErr
           /\ GetCurrentNode(Config') = [nodeID |-> Ptr(nodeID), err |-> NoErr]
           /\ Node' = Node]_vars

\* the pointer has been set to an id of no node, in a store that has nodes
C20_Witness ==
    /\ last.op = "SetCurrentNode" /\ last.err = NoErr
    /\ Node # <<>>
    /\ GetNodeByID(Node, last.arg[1]).err = ErrNotFound
    /\ GetCurrentNode(Config).nodeID = last.arg

\* C21: no step of the store (create, cherry-pick, prune, set or clear of the
\* pointer) changes the id, content, kind, parent or model of a node that is
\* in the store before the step and after it.
C21_NodesImmutable ==
    [][\A r \in Range(Node) :
        GetNodeByID(Node', r.id).err = NoErr
        => LET after == GetNodeByID(Node', r.id).node[1]
           IN /\ after.id = r.id
              /\ after.content = r.content
              /\ after.type = r.type
              /\ after.parent = r.parent
              /\ after.model = r.model]_vars

\* a prune has removed a subtree, and a root created before it is still there
C21_Witness ==
    /\ last.op = "DeleteNodeAndAllChildren" /\ last.count >= 1
    /\ Node # <<>>
    /\ \A r \in Range(Node) : r.id # last.arg[1]
    /\ \E r \in Range(Node) : r.parent = NULL

\* C22: GetDirectChildren(p) returns no error and lists each node whose parent
\* is p exactly once, no other node, in ascending order of id; the list is
\* empty when no node has parent p.
C22_DirectChildren ==
    \A p \in IDs :
        LET res == GetDirectChildren(Node, p)
            At(n) == {i \in 1..Len(res.nodes) : res.nodes[i] = n}
        IN /\ res.err = NoErr
           /\ \A n \in Range(Node) :
                  Cardinality(At(n)) = IF n.parent = Ptr(p) THEN 1 ELSE 0
           /\ \A i \in 1..Len(res.nodes) : res.nodes[i] \in Range(Node)
           /\ \A i, j \in 1..Len(res.nodes) :
                  i < j => res.nodes[i].id < res.nodes[j].id
           /\ (\A n \in Range(Node) : n.parent # Ptr(p)) => res.nodes = <<>>

\* a node has two children that were inserted in descending order of id, and
\* another node has none
C22_Witness ==
    /\ \E p \in RowIDs(Node) :
           /\ Len(GetDirectChildren(Node, p).nodes) = 2
           /\ GetDirectChildren(Node, p).nodes # SelectByParent(Node, p)
    /\ \E q \in RowIDs(Node) : GetDirectChildren(Node, q).nodes = <<>>

\* C23: GetRootNodes returns no error and lists each node without a parent
\* exactly once, no other node, in ascending order of id (so the list is a
\* function of the table alone).
C23_RootNodes ==
    LET res == GetRootNodes(Node)
        At(n) == {i \in 1..Len(res.nodes) : res.nodes[i] = n}
    IN /\ res.err = NoErr
       /\ \A n \in Range(Node) :
              Cardinality(At(n)) = IF n.parent = NULL THEN 1 ELSE 0
       /\ \A i \in 1..Len(res.nodes) : res.nodes[i] \in Range(Node)
       /\ \A i, j \in 1..Len(res.nodes) :
              i < j => res.nodes[i].id < res.nodes[j].id

\* two roots were created in descending order of id, next to a node that is
\* no root
C23_Witness ==
    /\ Len(GetRootNodes(Node).nodes) = 2
    /\ GetRootNodes(Node).nodes # SelectRoots(Node)
    /\ \E n \in Range(Node) : n.parent # NULL

\* C24: for every node n in the store, GetParentPath(n, 0) is empty exactly
\* when n has no parent.
C24_EmptyPathIffRoot ==
    \A n \in Range(Node) :
        LET path == GetParentPath(Node, n.id, 0)
        IN /\ path.err = NoErr
           /\ Len(path.nodes) = 0 <=> n.parent = NULL

\* the store holds two roots and a node with a parent
C24_Witness ==
    /\ \E a, b \in Range(Node) :
           /\ a.id # b.id
           /\ Len(GetParentPath(Node, a.id, 0).nodes) = 0
           /\ Len(GetParentPath(Node, b.id, 0).nodes) = 0
    /\ \E c \in Range(Node) : Len(GetParentPath(Node, c.id, 0).nodes) = 1

\* the sizes of the collections of the nodes of a list, added up
RECURSIVE SumOfSubtrees(_, _)
SumOfSubtrees(tbl, nodes) ==
    IF nodes = <<>> THEN 0
    ELSE Len(GetNodeAndAllChildren(tbl, Head(nodes).id).nodes)
         + SumOfSubtrees(tbl, Tail(nodes))

\* C25: for every node r of the store, GetNodeAndAllChildren(r) returns one
\* node more than the calls for the direct children of r return together.
C25_SizeLaw ==
    \A r \in RowIDs(Node) :
        Len(GetNodeAndAllChildren(Node, r).nodes)
            = 1 + SumOfSubtrees(Node, GetDirectChildren(Node, r).nodes)

\* a node has two children, another has a child and a grandchild below it
C25_Witness ==
    \/ \E r \in RowIDs(Node) :
           /\ Len(GetDirectChildren(Node, r).nodes) = 2
           /\ Len(GetNodeAndAllChildren(Node, r).nodes) = 3
           /\ last.op = "CreateChildNode"
    \/ \E r \in RowIDs(Node) :
           /\ Len(GetDirectChildren(Node, r).nodes) = 1
           /\ Len(GetNodeAndAllChildren(Node, r).nodes) = 3
           /\ last.op = "CreateLLMResponseNode"

\* C26: GetNodeAndAllChildren of an id that resolves to no node returns an
\* empty list and no error, and leaves the node table and the pointer as they
\* were.
C26_CollectUnresolved ==
    [][\A nodeID \in IDs :
        (/\ last'.op = "GetNodeAndAllChildren"
         /\ last' # last
         /\ last'.arg = Ptr(nodeID)
         /\ GetNodeByID(Node, nodeID).err # NoErr)
        => /\ last'.out = <<>>
           /\ last'.err = NoErr
           /\ Node' = Node
           /\ Config' = Config]_vars

\* the collection was asked for an id that has no row but is the parent of a row
C26_Witness ==
    /\ last.op = "GetNodeAndAllChildren" /\ last.out = <<>> /\ last.err = NoErr
    /\ GetNodeByID(Node, last.arg[1]).err = ErrNotFound
    /\ \E r \in Range(Node) : r.parent = last.arg

\* C27: DeleteNodeAndAllChildren of an id that resolves to no node returns
\* count 0 and no error and leaves the node table and the pointer as they were.
C27_PruneUnresolved ==
    [][\A nodeID \in IDs :
        (/\ last'.op = "DeleteNodeAndAllChildren"
         /\ last'.arg = Ptr(nodeID)
         /\ GetNodeByID(Node, nodeID).err # NoErr)
        => /\ last'.count = 0
           /\ last'.err = NoErr
           /\ Node' = Node
           /\ Config' = Config]_vars

\* a prune of an id without a row has returned in a store with nodes and a pointer
C27_Witness ==
    /\ last.op = "DeleteNodeAndAllChildren" /\ last.count = 0 /\ last.err = NoErr
    /\ GetNodeByID(Node, last.arg[1]).err = ErrNotFound
    /\ Len(Node) >= 2
    /\ Config # NULL

\* an id without a row is met on the way from id over at most k parent links
RECURSIVE MeetsUnresolved(_, _, _)
MeetsUnresolved(tbl, id, k) ==
    IF ~Exists(tbl, id) THEN TRUE
    ELSE IF k = 0 \/ ParentOf(tbl, id) = NULL THEN FALSE
    ELSE MeetsUnresolved(tbl, ParentOf(tbl, id)[1], k - 1)

\* C28: on every table, GetParentPath and GetConversationHistory return an
\* error when the starting id or a parent id they come to has no row;
\* GetParentPath with maxLevels > 0 comes to the first maxLevels parent ids
\* only, and neither walk returns an error otherwise.
C28_WalksFailOnUnresolved ==
    /\ last.op = "GetParentPath"
       => (last.err # NoErr
           <=> MeetsUnresolved(Node, last.arg[1],
                               IF last.count > 0 THEN last.count ELSE Len(Node)))
    /\ last.op = "GetConversationHistory"
       => (last.err # NoErr <=> MeetsUnresolved(Node, last.arg[1], Len(Node)))

\* GetParentPath with maxLevels 2 has failed on a node whose parent has a row
\* and whose grandparent has none; capped at one level it returns the parent
C28_Witness ==
    /\ last.op = "GetParentPath" /\ last.count = 2 /\ last.err = ErrGetParentNode
    /\ Exists(Node, last.arg[1])
    /\ GetParentPath(Node, last.arg[1], 1).err = NoErr
    /\ Len(GetParentPath(Node, last.arg[1], 1).nodes) = 1
    /\ GetConversationHistory(Node, last.arg[1]).err # NoErr

\* the row number of an id in a table
RowNumber(tbl, id) == CHOOSE i \in 1..Len(tbl) : tbl[i].id = id

\* C29: with two callers creating nodes, each create an insert followed by a
\* pointer write, a node is in the store from its insert on, and once both
\* callers have completed a create both their nodes are in the store and the
\* pointer holds the id of one of the two.
C29_ConcurrentCreates ==
    /\ \A c \in Callers :
           Local(c).pc = "setcurrent"
           => GetNodeByID(Node, Local(c).node[1].id) = [node |-> Local(c).node, err |-> NoErr]
    /\ (\A c \in Callers : /\ Local(c).pc = "idle"
                           /\ Local(c).op \in {"CreateRootNode", "CreateChildNodeWithType"}
                           /\ Local(c).err = NoErr
                           /\ Local(c).node # NULL)
       => /\ \A c \in Callers :
                 GetNodeByID(Node, Local(c).node[1].id)
                     = [node |-> Local(c).node, err |-> NoErr]
          /\ Local(1).node[1].id # Local(2).node[1].id
          /\ GetCurrentNode(Config).err = NoErr
          /\ GetCurrentNode(Config).nodeID
                 \in {Ptr(Local(c).node[1].id) : c \in Callers}

\* both callers have completed a create, and the pointer holds the id of the
\* node that was inserted first: the other insert and pointer write ran between
\* this caller's insert and its pointer write
C29_Witness ==
    /\ \A c \in Callers : /\ Local(c).pc = "idle"
                          /\ Local(c).op \in {"CreateRootNode", "CreateChildNodeWithType"}
                          /\ Local(c).node # NULL
    /\ \E c, d \in Callers :
           /\ Config = Ptr(Local(c).node[1].id)
           /\ RowNumber(Node, Local(c).node[1].id) < RowNumber(Node, Local(d).node[1].id)

\* C30: every DELETE of a prune raises the call's count by the number of rows
\* that DELETE removed, from 0 at the collection to the count returned, so the
\* count is the number of rows the call removed, also when another caller has
\* removed collected rows in between.
C30_CountIsEffect ==
    [][\A c \in Callers :
        /\ (Local(c).pc # "delete" /\ callers'[c].pc = "delete")
           => callers'[c].deletedCount = 0 /\ Node' = Node
        /\ (Local(c).pc = "delete" /\ callers'[c] # callers[c])
           => LET target == DeleteTarget(Local(c).nodesToDelete, Local(c).i).id
                  removed == Len(Node) - Len(Node')
              IN /\ callers'[c].deletedCount = Local(c).deletedCount + removed
                 /\ removed = IF Exists(Node, target) THEN 1 ELSE 0
                 /\ RowIDs(Node') = RowIDs(Node) \ {target}
                 /\ callers'[c].pc = "idle"
                    => /\ callers'[c].op = "DeleteNodeAndAllChildren"
                       /\ callers'[c].err = NoErr
                       /\ callers'[c].deletedCount <= Len(Local(c).nodesToDelete)]_vars

\* a prune has issued more DELETEs than it has removed rows, another caller
\* having removed a row it had collected
C30_Witness ==
    \E c \in Callers :
        /\ Local(c).pc = "delete"
        /\ Local(c).deletedCount >= 1
        /\ Len(Local(c).nodesToDelete) - Local(c).i > Local(c).deletedCount

\* A step that adds one node, of the given type under the given parent, after
\* the rows there were, keeps those rows, and leaves the pointer on the node.
AddsOne(type, parent) ==
    /\ Len(Node') = Len(Node) + 1
    /\ SubSeq(Node', 1, Len(Node)) = Node
    /\ LET n == Node'[Len(Node')]
       IN /\ ~Exists(Node, n.id)
          /\ n.type = type /\ n.parent = parent
          /\ Config' = Ptr(n.id)

\* The first run of a message or seed with a model: it adds the user node
\* under parent; it ends the command when the key lookup or the client failed,
\* and otherwise waits for the response, with the node and the model kept.
AddsUserThenWaits(t, op, parent, model) ==
    /\ AddsOne("user", parent)
    /\ last'.out = <<Node'[Len(Node')].id>>
    /\ last'.in[1].outcome \in LLMEnvs
    /\ IF last'.in[1].outcome = "client"
       THEN /\ last'.op = Waiting(op)
            /\ callers'[t].pc = WaitResponse
            /\ callers'[t].node = Ptr(Node'[Len(Node')])
            /\ Ptr(callers'[t].in[1].model) = model
       ELSE /\ last'.op = op /\ last'.count = 0
            /\ callers'[t].pc = "idle"

\* C31: when `bai <message>` runs with a model (given by --llm, or inherited
\* from the current node), or `bai seed` runs with --llm, and a response comes
\* back, the store gains exactly two nodes: a user node (under the node that
\* was current, or a root for seed) and after it an llm node whose parent is
\* that user node and whose model is the model used; the pointer ends on the
\* llm node.  When the key lookup, the client or the call fails, only the user
\* node is added and the pointer ends on it.  The command adds the user node
\* before it waits for the response and the llm node when the response is
\* there; with one user nothing comes in between.
C31_MessageAddsUserThenResponse ==
    [][/\ (/\ last'.op \in {"seed", Waiting("seed")}
           /\ Local(1).pc = "idle"
           /\ last'.in[1].llm # "")
          => AddsUserThenWaits(1, "seed", NULL, Ptr(last'.in[1].llm))
       /\ \A cur \in IDs :
            LET in == last'.in[1]
                model == IF in.llm # "" THEN Ptr(in.llm) ELSE RowOf(Node, cur).model
            IN (/\ last'.op \in {"message", Waiting("message")}
                /\ Local(1).pc = "idle"
                /\ Config = Ptr(cur)
                /\ Exists(Node, cur)
                /\ model # NULL)
               => AddsUserThenWaits(1, "message", Ptr(cur), model)
       /\ (Local(1).pc = WaitResponse /\ callers'[1].pc = "idle")
          => LET u == Local(1).node[1]
             IN /\ Node # <<>> /\ Node[Len(Node)] = u
                /\ Config = Ptr(u.id)
                /\ last'.op = Local(1).op /\ last'.count = 0
                /\ IF last'.in[1].outcome = "response"
                   THEN /\ AddsOne("llm", Ptr(u.id))
                        /\ Node'[Len(Node')].model = Ptr(Local(1).in[1].model)
                        /\ last'.out = <<u.id, Node'[Len(Node')].id>>
                   ELSE /\ Node' = Node /\ Config' = Config
                        /\ last'.out = <<u.id>>]_vars

\* A message without --llm inherited the model of the current node, got a
\* response, and left the pointer on the second of the two nodes it created.
C31_Witness ==
    /\ last.op = "message"
    /\ last.in # NULL
    /\ last.in[1].llm = ""
    /\ last.in[1].outcome = "response"
    /\ Len(last.out) = 2
    /\ Config = Ptr(last.out[2])
    /\ Len(Node) = 3
    /\ Node[1].model = Ptr("m1") /\ Node[1].type = "user"
    /\ Node[2].type = "user" /\ Node[2].parent = Ptr(Node[1].id)
    /\ Node[3].type = "llm" /\ Node[3].parent = Ptr(Node[2].id)

\* C32: under the commands of one user (seed, message, checkout, cherry-pick,
\* prune confirmed or declined, seeds), the current pointer is at every moment
\* either unset or the id of a node that exists.
C32_CommandsKeepPointerValid ==
    Config = NULL \/ Exists(Node, Config[1])

\* A confirmed prune removed the node the pointer was on and cleared the
\* pointer, while other nodes remain.
C32_Witness ==
    /\ last.op = "prune"
    /\ last.count = 0
    /\ last.in # NULL
    /\ TrimSpace(ToLower(last.in[1])) \in {AnswerY, AnswerYes}
    /\ Len(last.out) >= 2
    /\ Config = NULL
    /\ Node # <<>>


\* C33: a cherry-pick run while the pointer is unset, or with a source id that
\* does not resolve, or with the id of the current working node as its source,
\* creates nothing: the node table and the pointer are as before and no id is
\* consumed; the first case returns normally, the other two exit with status 1.
C33_CherryPickRefuses ==
    [][\A s \in IDs :
          (/\ last'.op = "cherry-pick"
           /\ last'.arg = Ptr(s)
           /\ (Config = NULL \/ ~Exists(Node, s) \/ Config = Ptr(s)))
          => /\ Node' = Node
             /\ Config' = Config
             /\ uuids' = uuids
             /\ last'.node = NULL
             /\ last'.count = IF Config = NULL THEN 0 ELSE 1]_vars

\* A cherry-pick of the current working node itself, an existing node, was
\* refused.
C33_Witness ==
    /\ last.op = "cherry-pick"
    /\ last.arg = Config
    /\ Config # NULL
    /\ Exists(Node, Config[1])
    /\ last.node = NULL
    /\ last.count = 1
    /\ Len(Node) >= 2


\* C34: when the backend fails one of the DELETE statements of
\* DeleteNodeAndAllChildren, the call stops there: it returns the error and
\* the number of rows removed before the failed statement, removes no other
\* row, leaves the pointer alone, and every surviving node whose parent was in
\* the store still has its parent in the store.
C34_InterruptedPruneKeepsParents ==
    [][(/\ last'.op = "DeleteNodeAndAllChildren"
        /\ last'.fault = "DeleteNode")
       => /\ last'.err = ErrDelete
          /\ last'.count = last'.in[1] - 1
          /\ last'.count = Len(Node) - Len(Node')
          /\ \A r \in Range(Node') : r \in Range(Node)
          /\ Exists(Node', last'.arg[1])
          /\ Config' = Config
          /\ \A r \in Range(Node') :
               (r.parent # NULL /\ Exists(Node, r.parent[1]))
               => Exists(Node', r.parent[1])]_vars

\* A prune of a node with two nodes below it was interrupted after it had
\* removed one of them: the error came back with the count 1, and the node
\* and its other descendant remain.
C34_Witness ==
    /\ last.op = "DeleteNodeAndAllChildren"
    /\ last.fault = "DeleteNode"
    /\ last.err = ErrDelete
    /\ last.count = 1
    /\ Len(Node) = 2
    /\ Exists(Node, last.arg[1])
    /\ \E r \in Range(Node) : r.parent = last.arg


\* C35: for an id that has a row, the list GetNodeAndAllChildren returns
\* starts with that node, and every later element stands after its own parent
\* (a top-down listing); checked on every table a caller of InsertNode can
\* build, in every order of its rows, those with parent cycles and dangling
\* parents included.
C35_CollectionIsTopDown ==
    [][\A id \in IDs :
          (/\ last'.op = "GetNodeAndAllChildren"
           /\ last' # last
           /\ last'.arg = Ptr(id)
           /\ Exists(Node, id))
          => LET out == last'.out
             IN /\ out # <<>>
                /\ out[1] = id
                /\ \A k \in 2..Len(out) :
                     \E j \in 1..(k - 1) : ParentOf(Node, out[k]) = Ptr(out[j])]_vars

\* A collection returned a node, its child and its grandchild, in that order.
C35_Witness ==
    /\ last.op = "GetNodeAndAllChildren"
    /\ Len(last.out) = 3
    /\ last.arg = Ptr(last.out[1])
    /\ \A k \in 1..3 : Exists(Node, last.out[k])
    /\ ParentOf(Node, last.out[2]) = Ptr(last.out[1])
    /\ ParentOf(Node, last.out[3]) = Ptr(last.out[2])
    /\ ParentOf(Node, last.out[1]) = NULL


\* C36: a checkout of an id that resolves to a node ends with the pointer on
\* that id and exit status 0; a checkout of an id that does not resolve exits
\* with status 1 and leaves the pointer as it was; either way the node table
\* is unchanged and no id is consumed.
C36_CheckoutMovesPointerIffResolved ==
    [][\A id \in IDs :
          (last'.op = "checkout" /\ last'.arg = Ptr(id))
          => /\ Node' = Node
             /\ uuids' = uuids
             /\ IF Exists(Node, id)
                THEN Config' = Ptr(id) /\ last'.count = 0
                ELSE Config' = Config /\ last'.count = 1]_vars

\* A checkout of an id that names no node failed while the pointer was on
\* another node, and the pointer is still there.
C36_Witness ==
    /\ last.op = "checkout"
    /\ last.count = 1
    /\ ~Exists(Node, last.arg[1])
    /\ Config # NULL
    /\ Exists(Node, Config[1])
    /\ Len(Node) >= 2


\* What the user typed at the prompt, without the newline that ends it.
Typed(stdin) ==
    IF stdin # <<>> /\ stdin[Len(stdin)] = NewLine
    THEN SubSeq(stdin, 1, Len(stdin) - 1) ELSE stdin

\* The prompt was answered, and the answer with the white space around it
\* removed and its letters in lower case is y or yes.
Confirmed(stdin) ==
    /\ ReadString(stdin).err = NoErr
    /\ TrimSpace(ToLower(ReadString(stdin).line)) \in {AnswerY, AnswerYes}

\* C37: a prune of an id that resolves to no node, or one whose answer at the
\* prompt, trimmed of white space and put in lower case, is neither y nor yes,
\* deletes no node and leaves the pointer unchanged; and a prune changes the
\* pointer only by clearing it, after it removed the whole previewed set and
\* that set contained the current node.  A prune changes nothing before the
\* prompt, and with one user nothing comes between its preview and the answer.
C37_PruneIsGuarded ==
    [][\A id \in IDs :
          /\ (/\ last'.op \in {"prune", Waiting("prune")}
              /\ last'.arg = Ptr(id)
              /\ Local(1).pc = "idle")
             => /\ Node' = Node /\ Config' = Config
                /\ IF Exists(Node, id)
                   THEN /\ last'.op = Waiting("prune")
                        /\ callers'[1].pc = WaitAnswer
                        /\ Range(IDsOf(callers'[1].nodesToDelete))
                              = {id} \cup Descendants(Node, id)
                   ELSE last'.op = "prune" /\ last'.count = 1
          /\ (/\ Local(1).pc = WaitAnswer
              /\ Local(1).arg = Ptr(id)
              /\ callers'[1].pc = "idle")
             => LET stdin == last'.in[1]
                    previewed == {id} \cup Descendants(Node, id)
                IN /\ Exists(Node, id)
                   /\ Range(IDsOf(Local(1).nodesToDelete)) = previewed
                   /\ last'.op = "prune" /\ last'.arg = Ptr(id)
                   /\ ~Confirmed(stdin) => (Node' = Node /\ Config' = Config)
                   /\ Config' # Config
                      => /\ Config' = NULL
                         /\ Confirmed(stdin)
                         /\ Config[1] \in previewed
                         /\ \A d \in previewed : ~Exists(Node', d)
                         /\ last'.count = 0]_vars

\* C37 as first stated: any answer other than the very strings y and yes
\* leaves the store and the pointer as they were.
C37_OnlyExactAnswersDelete ==
    [][(/\ Local(1).pc = WaitAnswer
        /\ callers'[1].pc = "idle"
        /\ Typed(last'.in[1]) \notin {AnswerY, AnswerYes})
       => (Node' = Node /\ Config' = Config)]_vars

\* A prune of a node with a node below it, the current node among the two,
\* was answered n: both nodes and the pointer are still there.
C37_Witness ==
    /\ last.op = "prune"
    /\ last.in = Ptr(<<110, 10>>)
    /\ last.count = 0
    /\ Len(last.out) >= 2
    /\ \A k \in 1..Len(last.out) : Exists(Node, last.out[k])
    /\ Config # NULL
    /\ \E k \in 1..Len(last.out) : Config = Ptr(last.out[k])


\* C38: the seeds listing has one line per root; while the pointer is unset
\* no line carries a mark, and while it names a node of the forest exactly one
\* line carries one: "(current working node)" on the root the pointer names,
\* or "(contains current working node)" on the root that has the pointed node
\* among its proper descendants.
C38_SeedsMarksOneRoot ==
    last.op = "seeds" =>
        LET lines == last.out
            marked == {k \in 1..Len(lines) : lines[k].statusMessage # NoMark}
        IN /\ {lines[k].id : k \in 1..Len(lines)}
                = {r.id : r \in {x \in Range(Node) : x.parent = NULL}}
           /\ NoDuplicates([k \in 1..Len(lines) |-> lines[k].id])
           /\ Config = NULL => marked = {}
           /\ (Config # NULL /\ Exists(Node, Config[1]) /\ Forest(Node))
              => /\ Cardinality(marked) = 1
                 /\ \A k \in marked :
                      IF lines[k].id = Config[1]
                      THEN lines[k].statusMessage = MarkCurrent
                      ELSE /\ lines[k].statusMessage = MarkContains
                           /\ Config[1] \in Descendants(Node, lines[k].id)

\* A listing of two roots, the second of which was marked as containing the
\* current working node.
C38_Witness ==
    /\ last.op = "seeds"
    /\ Len(last.out) = 2
    /\ last.out[1].statusMessage = NoMark
    /\ last.out[2].statusMessage = MarkContains
    /\ Config # NULL
    /\ ParentOf(Node, Config[1]) = Ptr(last.out[2].id)

====
